---- MODULE Spec2Model ----
(***************************************************************************)
(* NWN combat tracker: the parsing-and-aggregation core                    *)
(* (src/nwn_combat_tracker_gui.py).                                        *)
(*                                                                         *)
(* The tracker object is one record variable whose fields are the fields   *)
(* of NWNCombatTracker.  parse_line is one action; it is the sequential    *)
(* composition of the stages of the method (attack, concealment-only miss, *)
(* save, damage, potion, undead self-heal, kill), each stage an operator   *)
(* from tracker record to tracker record.  A log line is given by the      *)
(* groups the regular expressions of _compile_patterns capture from it.    *)
(* Names are sequences of one-character strings so that strip(), rstrip()  *)
(* lower() and the substring test are computed, not assumed.               *)
(***************************************************************************)
EXTENDS Integers, Sequences, FiniteSets, TLC

VARIABLES
    tracker,    \* the NWNCombatTracker object (self.tracker of the GUI)
    now,        \* what datetime.now() returns
    display,    \* what _render_stats last wrote for the AC estimate
    nlines,     \* number of parse_line calls made so far (bounded)
    last,       \* history: the last call made on the tracker, and its line
    prev,       \* history: outcome of the preceding resolved attacks of the session
    probe,      \* the last direct call of _matches_target: its argument and result
    stripped,   \* a raw line text and what repeated _strip_prefix calls made of it
    tail,       \* the tail thread's position inside its current parse_line call
    gui,        \* NWNTrackerGUI: running and file_position
    logfile,    \* the log file: its lines (by number) and how many were ever written
    loops,      \* the threads running _tail_log: position and local variables
    fed,        \* history: the numbers of the lines passed to parse_line, in order
    timer       \* the display timer's position inside the handler it is running

(* what the tracker's own operations leave alone *)
calls == <<probe, stripped>>

aux == <<calls, tail, gui, logfile, loops, fed, timer>>

vars == <<tracker, now, display, nlines, last, prev, aux>>

----------------------------------------------------------------------------
(* Bounds of the model *)

MaxLines == 3
MaxThreads == 2
MaxWritten == 3
MaxTime == 20
MaxTimeLong == 50
TickStep == 10

(* Program constant: AttackBonus.window_seconds *)
window_seconds == 30

----------------------------------------------------------------------------
(* Optional values: Python's None and a present value *)

None == <<>>
Some(x) == <<x>>
Val(o) == o[1]

Min2(a, b) == IF a < b THEN a ELSE b
Max2(a, b) == IF a > b THEN a ELSE b

RECURSIVE SeqMax(_)
SeqMax(s) ==
    IF Len(s) = 1 THEN s[1] ELSE Max2(s[1], SeqMax(Tail(s)))

RECURSIVE SelectPairs(_, _)
SelectPairs(s, cutoff) ==
    IF s = <<>> THEN <<>>
    ELSE IF s[1][1] > cutoff THEN <<s[1]>> \o SelectPairs(Tail(s), cutoff)
         ELSE SelectPairs(Tail(s), cutoff)

Bonuses(s) == [i \in 1..Len(s) |-> s[i][2]]

----------------------------------------------------------------------------
(* Strings as sequences of characters *)

LowerChar(c) ==
    CASE c = "A" -> "a"
      [] c = "Z" -> "z"
      [] c = "K" -> "k"
      [] c = "O" -> "o"
      [] c = "G" -> "g"
      [] c = "B" -> "b"
      [] OTHER -> c

Lower(s) == [i \in 1..Len(s) |-> LowerChar(s[i])]

IsSpace(c) == c = " "
IsTrailPunct(c) == c \in {".", "!", ","}

RECURSIVE LStrip(_)
LStrip(s) ==
    IF s # <<>> /\ IsSpace(s[1]) THEN LStrip(Tail(s)) ELSE s

RECURSIVE RStrip(_)
RStrip(s) ==
    IF s # <<>> /\ IsSpace(s[Len(s)]) THEN RStrip(SubSeq(s, 1, Len(s) - 1)) ELSE s

Strip(s) == RStrip(LStrip(s))

RECURSIVE RStripPunct(_)
RStripPunct(s) ==
    IF s # <<>> /\ IsTrailPunct(s[Len(s)])
    THEN RStripPunct(SubSeq(s, 1, Len(s) - 1))
    ELSE s

(* Python's `sub in s` *)
Contains(s, sub) ==
    \E i \in 0..(Len(s) - Len(sub)) : SubSeq(s, i + 1, i + Len(sub)) = sub

----------------------------------------------------------------------------
(* EnemySaves *)

NewSaves(nm) == [name |-> nm, fortitude |-> None, reflex |-> None, will |-> None]

SaveRaise(field, bonus) ==
    IF field = None \/ bonus > Val(field) THEN Some(bonus) ELSE field

update_save(s, save_type, bonus) ==
    IF save_type = "fort" THEN [s EXCEPT !.fortitude = SaveRaise(@, bonus)]
    ELSE IF save_type = "ref" THEN [s EXCEPT !.reflex = SaveRaise(@, bonus)]
    ELSE IF save_type = "will" THEN [s EXCEPT !.will = SaveRaise(@, bonus)]
    ELSE s

(* EnemyAC *)

NewAC(nm) == [name |-> nm, min_hit |-> None, max_miss |-> None]

record_hit(ac, total) ==
    IF ac.min_hit = None \/ total < Val(ac.min_hit)
    THEN [ac EXCEPT !.min_hit = Some(total)]
    ELSE ac

record_miss(ac, total, was_nat1) ==
    IF ~was_nat1 /\ (ac.max_miss = None \/ total > Val(ac.max_miss))
    THEN [ac EXCEPT !.max_miss = Some(total)]
    ELSE ac

(* get_ac_estimate with the exact test off by one (max_miss == min_hit) *)
get_ac_estimate_off_by_one(ac) ==
    IF ac.min_hit # None /\ ac.max_miss # None
    THEN IF Val(ac.max_miss) = Val(ac.min_hit)
         THEN ToString(Val(ac.min_hit))
         ELSE IF Val(ac.max_miss) < Val(ac.min_hit)
              THEN ToString(Val(ac.max_miss) + 1) \o "-" \o ToString(Val(ac.min_hit))
              ELSE "~" \o ToString(Val(ac.min_hit))
    ELSE IF ac.min_hit # None THEN "<=" \o ToString(Val(ac.min_hit))
    ELSE IF ac.max_miss # None THEN ">" \o ToString(Val(ac.max_miss))
    ELSE "?"

(* The strings of get_ac_estimate; the character U+2264 is written "<=". *)
get_ac_estimate(ac) ==
    IF ac.min_hit # None /\ ac.max_miss # None
    THEN IF Val(ac.max_miss) + 1 = Val(ac.min_hit)
         THEN ToString(Val(ac.min_hit))
         ELSE IF Val(ac.max_miss) < Val(ac.min_hit)
              THEN ToString(Val(ac.max_miss) + 1) \o "-" \o ToString(Val(ac.min_hit))
              ELSE "~" \o ToString(Val(ac.min_hit))
    ELSE IF ac.min_hit # None THEN "<=" \o ToString(Val(ac.min_hit))
    ELSE IF ac.max_miss # None THEN ">" \o ToString(Val(ac.max_miss))
    ELSE "?"

(* AttackBonus *)

NewAttackBonus(clk) ==
    [current |-> 0, max_observed |-> 0, last_updated |-> clk, recent_attacks |-> <<>>]

prune_old(ab, clk) ==
    [ab EXCEPT !.recent_attacks = SelectPairs(@, clk - window_seconds)]

ab_update(ab, bonus, clk) ==
    LET a1 == [ab EXCEPT !.current = bonus,
                         !.recent_attacks = Append(@, <<clk, bonus>>)]
        a2 == prune_old(a1, clk)
    IN  [a2 EXCEPT !.max_observed =
                       IF a2.recent_attacks # <<>>
                       THEN SeqMax(Bonuses(a2.recent_attacks))
                       ELSE bonus,
                   !.last_updated = clk]

(* refresh taking the maximum before pruning the window *)
ab_refresh_max_before_prune(ab, clk) ==
    LET a1 == prune_old(ab, clk)
    IN  IF ab.recent_attacks # <<>>
        THEN [a1 EXCEPT !.max_observed = SeqMax(Bonuses(ab.recent_attacks))]
        ELSE a1

ab_refresh(ab, clk) ==
    LET a1 == prune_old(ab, clk)
    IN  IF a1.recent_attacks # <<>>
        THEN [a1 EXCEPT !.max_observed = SeqMax(Bonuses(a1.recent_attacks))]
        ELSE a1

----------------------------------------------------------------------------
(* NWNCombatTracker: construction, identity, timing *)

(* reset leaving the death state as it is *)
reset_keeps_death(t) ==
    [t EXCEPT !.target_saves = None, !.target_ac = None, !.target_name = <<>>,
              !.target_ab = None,
              !.hits = 0, !.misses = 0, !.crits = 0, !.conceals = 0,
              !.target_conceal_pct = None,
              !.damage_dealt = 0, !.damage_dealt_crits = <<>>,
              !.damage_dealt_normal = <<>>,
              !.shield_damage_by_type = <<>>, !.shield_damage_total = 0,
              !.weapon_buff_damage_by_type = <<>>, !.weapon_buff_damage_total = 0,
              !.last_attack_was_player = FALSE,
              !.damage_taken = <<>>, !.damage_taken_by_type = <<>>,
              !.player_pots = 0, !.target_pots = 0,
              !.last_player_hit_was_crit = FALSE,
              !.last_target_hit_was_crit = FALSE,
              !.encounter_start = None, !.encounter_last = None]

(* reset also clearing the filter and the lock-mode flag *)
reset_clears_config(t) ==
    [t EXCEPT !.target_saves = None, !.target_ac = None, !.target_name = <<>>,
              !.target_ab = None,
              !.hits = 0, !.misses = 0, !.crits = 0, !.conceals = 0,
              !.target_conceal_pct = None,
              !.damage_dealt = 0, !.damage_dealt_crits = <<>>,
              !.damage_dealt_normal = <<>>,
              !.shield_damage_by_type = <<>>, !.shield_damage_total = 0,
              !.weapon_buff_damage_by_type = <<>>, !.weapon_buff_damage_total = 0,
              !.last_attack_was_player = FALSE,
              !.damage_taken = <<>>, !.damage_taken_by_type = <<>>,
              !.player_pots = 0, !.target_pots = 0,
              !.last_player_hit_was_crit = FALSE,
              !.last_target_hit_was_crit = FALSE,
              !.encounter_start = None, !.encounter_last = None,
              !.target_dead = FALSE, !.kill_time = None,
              !.target_filter = <<>>, !.exact_match = FALSE, !.auto_track = TRUE]

(* reset() that also starts a fresh rolling attack-bonus window *)
reset_clears_attack_bonus(t) ==
    [t EXCEPT !.target_saves = None, !.target_ac = None, !.target_name = <<>>,
              !.target_ab = None,
              !.hits = 0, !.misses = 0, !.crits = 0, !.conceals = 0,
              !.target_conceal_pct = None,
              !.damage_dealt = 0, !.damage_dealt_crits = <<>>,
              !.damage_dealt_normal = <<>>,
              !.shield_damage_by_type = <<>>, !.shield_damage_total = 0,
              !.weapon_buff_damage_by_type = <<>>, !.weapon_buff_damage_total = 0,
              !.last_attack_was_player = FALSE,
              !.damage_taken = <<>>, !.damage_taken_by_type = <<>>,
              !.player_pots = 0, !.target_pots = 0,
              !.last_player_hit_was_crit = FALSE,
              !.last_target_hit_was_crit = FALSE,
              !.encounter_start = None, !.encounter_last = None,
              !.target_dead = FALSE, !.kill_time = None,
              !.attack_bonus = [@ EXCEPT !.current = 0, !.max_observed = 0,
                                         !.recent_attacks = <<>>]]

reset(t) ==
    [t EXCEPT !.target_saves = None, !.target_ac = None, !.target_name = <<>>,
              !.target_ab = None,
              !.hits = 0, !.misses = 0, !.crits = 0, !.conceals = 0,
              !.target_conceal_pct = None,
              !.damage_dealt = 0, !.damage_dealt_crits = <<>>,
              !.damage_dealt_normal = <<>>,
              !.shield_damage_by_type = <<>>, !.shield_damage_total = 0,
              !.weapon_buff_damage_by_type = <<>>, !.weapon_buff_damage_total = 0,
              !.last_attack_was_player = FALSE,
              !.damage_taken = <<>>, !.damage_taken_by_type = <<>>,
              !.player_pots = 0, !.target_pots = 0,
              !.last_player_hit_was_crit = FALSE,
              !.last_target_hit_was_crit = FALSE,
              !.encounter_start = None, !.encounter_last = None,
              !.target_dead = FALSE, !.kill_time = None]

NewTracker(cfg, clk) ==
    [player_name |-> cfg.player_name,
     target_filter |-> Lower(cfg.target_filter),
     exact_match |-> cfg.exact_match,
     auto_track |-> cfg.auto_track,
     target_saves |-> None, target_ac |-> None, target_name |-> <<>>,
     target_ab |-> None,
     attack_bonus |-> NewAttackBonus(clk),
     hits |-> 0, misses |-> 0, crits |-> 0, conceals |-> 0,
     target_conceal_pct |-> None,
     damage_dealt |-> 0, damage_dealt_crits |-> <<>>, damage_dealt_normal |-> <<>>,
     shield_damage_by_type |-> <<>>, shield_damage_total |-> 0,
     weapon_buff_damage_by_type |-> <<>>, weapon_buff_damage_total |-> 0,
     last_attack_was_player |-> FALSE,
     damage_taken |-> <<>>, damage_taken_by_type |-> <<>>,
     player_pots |-> 0, target_pots |-> 0,
     last_player_hit_was_crit |-> FALSE, last_target_hit_was_crit |-> FALSE,
     encounter_start |-> None, encounter_last |-> None,
     target_dead |-> FALSE, kill_time |-> None]

is_player(t, name) ==
    t.player_name # <<>> /\ Contains(Lower(name), Lower(t.player_name))

NormName(name) == Lower(RStripPunct(Strip(name)))

(* _matches_target without the "if not self.target_filter" guard *)
matches_target_no_empty_guard(t, name) ==
    LET n == NormName(name)
    IN  IF t.auto_track
        THEN IF is_player(t, n) THEN FALSE
             ELSE IF t.target_name # <<>> THEN Lower(t.target_name) = n
             ELSE TRUE
        ELSE IF t.exact_match THEN t.target_filter = n
             ELSE Contains(n, t.target_filter)

(* _matches_target comparing by substring with the locked name *)
matches_target_lock_substring(t, name) ==
    LET n == NormName(name)
    IN  IF t.auto_track
        THEN IF is_player(t, n) THEN FALSE
             ELSE IF t.target_name # <<>> THEN Contains(n, Lower(t.target_name))
             ELSE TRUE
        ELSE IF t.target_filter = <<>> THEN FALSE
             ELSE IF t.exact_match THEN t.target_filter = n
             ELSE Contains(n, t.target_filter)

matches_target(t, name) ==
    LET n == NormName(name)
    IN  IF t.auto_track
        THEN IF is_player(t, n) THEN FALSE
             ELSE IF t.target_name # <<>> THEN Lower(t.target_name) = n
             ELSE TRUE
        ELSE IF t.target_filter = <<>> THEN FALSE
             ELSE IF t.exact_match THEN t.target_filter = n
             ELSE Contains(n, t.target_filter)

(* set_target without the "if not self.target_name" guard *)
set_target_unguarded(t, name) ==
    LET nm == RStripPunct(Strip(name))
    IN  [t EXCEPT !.target_name = nm,
                  !.target_saves = Some(NewSaves(nm)),
                  !.target_ac = Some(NewAC(nm))]

set_target(t, name) ==
    IF t.target_name = <<>>
    THEN LET nm == RStripPunct(Strip(name))
         IN  [t EXCEPT !.target_name = nm,
                       !.target_saves = Some(NewSaves(nm)),
                       !.target_ac = Some(NewAC(nm))]
    ELSE t

(* _update_encounter_time assigning encounter_start on every call *)
update_encounter_time_restarts(t, clk) ==
    [t EXCEPT !.encounter_start = Some(clk),
              !.encounter_last = Some(clk)]

update_encounter_time(t, clk) ==
    [t EXCEPT !.encounter_start = IF @ = None THEN Some(clk) ELSE @,
              !.encounter_last = Some(clk)]

----------------------------------------------------------------------------
(* A log line, as the groups the patterns of _compile_patterns capture.    *)
(* Each field is None when that pattern does not match the line.           *)
(*   atk    pat_attack_conceal / pat_attack_conceal_pending / pat_attack   *)
(*          (form says which one matched first, in the order of the code)  *)
(*   cmiss  pat_conceal_miss     save  pat_save      dmg  pat_damage       *)
(*   potion pat_potion           heal  pat_undead_heal   kill  pat_kill    *)

NoLine ==
    [atk |-> None, cmiss |-> None, save |-> None, dmg |-> None,
     potion |-> None, heal |-> None, kill |-> None]

(* Outcome tokens (already lower-cased): the substring tests of the code *)
HasHit(o) == o \in {"hit", "critical hit"}
HasMiss(o) == o = "miss"
HasCritical(o) == o = "critical hit"

(* str.title() on the damage type names used *)
Title(ty) ==
    CASE ty \in {"fire", "FIRE", "Fire"} -> "Fire"
      [] ty \in {"cold", "Cold"} -> "Cold"
      [] ty \in {"physical", "Physical"} -> "Physical"
      [] OTHER -> ty

DictAdd(d, k, a) ==
    IF k \in DOMAIN d THEN [d EXCEPT ![k] = @ + a] ELSE (k :> (0 + a)) @@ d

DictAppend(d, k, a) ==
    IF k \in DOMAIN d THEN [d EXCEPT ![k] = Append(@, a)] ELSE (k :> <<a>>) @@ d

(* PlayerAttack counting only the token "miss" as a miss *)
PlayerAttack_miss_token_only(t, a, clk) ==
    LET outcome == a.outcome
        is_hit == HasHit(outcome) /\ ~HasMiss(outcome)
        is_crit == HasCritical(outcome)
        is_miss == outcome = "miss"
        was_nat1 == IF a.roll # None /\ Val(a.roll) # 0 THEN Val(a.roll) = 1 ELSE FALSE
        t1 == update_encounter_time(set_target(t, a.target), clk)
        t2 == IF a.conceal # None THEN [t1 EXCEPT !.target_conceal_pct = a.conceal] ELSE t1
        t3 == IF a.bonus # None
              THEN [t2 EXCEPT !.attack_bonus = ab_update(@, Val(a.bonus), clk)]
              ELSE t2
    IN  IF a.form = "pending" THEN t3
        ELSE IF is_hit
        THEN [t3 EXCEPT !.hits = @ + 1,
                        !.last_attack_was_player = TRUE,
                        !.crits = IF is_crit THEN @ + 1 ELSE @,
                        !.last_player_hit_was_crit = is_crit,
                        !.target_ac = IF a.total # None /\ @ # None
                                      THEN Some(record_hit(Val(@), Val(a.total)))
                                      ELSE @]
        ELSE IF is_miss
        THEN [t3 EXCEPT !.misses = @ + 1,
                        !.target_ac = IF a.total # None /\ @ # None
                                      THEN Some(record_miss(Val(@), Val(a.total), was_nat1))
                                      ELSE @]
        ELSE t3

(* PlayerAttack without the else branch that clears the crit latch *)
PlayerAttack_sticky_crit(t, a, clk) ==
    LET outcome == a.outcome
        is_hit == HasHit(outcome) /\ ~HasMiss(outcome)
        is_crit == HasCritical(outcome)
        is_miss == outcome \in {"miss", "parried", "resisted"}
        was_nat1 == IF a.roll # None /\ Val(a.roll) # 0 THEN Val(a.roll) = 1 ELSE FALSE
        t1 == update_encounter_time(set_target(t, a.target), clk)
        t2 == IF a.conceal # None THEN [t1 EXCEPT !.target_conceal_pct = a.conceal] ELSE t1
        t3 == IF a.bonus # None
              THEN [t2 EXCEPT !.attack_bonus = ab_update(@, Val(a.bonus), clk)]
              ELSE t2
    IN  IF a.form = "pending" THEN t3
        ELSE IF is_hit
        THEN [t3 EXCEPT !.hits = @ + 1,
                        !.last_attack_was_player = TRUE,
                        !.crits = IF is_crit THEN @ + 1 ELSE @,
                        !.last_player_hit_was_crit = IF is_crit THEN TRUE ELSE @,
                        !.target_ac = IF a.total # None /\ @ # None
                                      THEN Some(record_hit(Val(@), Val(a.total)))
                                      ELSE @]
        ELSE IF is_miss
        THEN [t3 EXCEPT !.misses = @ + 1,
                        !.target_ac = IF a.total # None /\ @ # None
                                      THEN Some(record_miss(Val(@), Val(a.total), was_nat1))
                                      ELSE @]
        ELSE t3

(* PlayerAttack returning right after binding when the line is pending *)
PlayerAttack_pending_ignored(t, a, clk) ==
    LET outcome == a.outcome
        is_hit == HasHit(outcome) /\ ~HasMiss(outcome)
        is_crit == HasCritical(outcome)
        is_miss == outcome \in {"miss", "parried", "resisted"}
        was_nat1 == IF a.roll # None /\ Val(a.roll) # 0 THEN Val(a.roll) = 1 ELSE FALSE
        t1 == update_encounter_time(set_target(t, a.target), clk)
        t2 == IF a.conceal # None THEN [t1 EXCEPT !.target_conceal_pct = a.conceal] ELSE t1
        t3 == IF a.bonus # None
              THEN [t2 EXCEPT !.attack_bonus = ab_update(@, Val(a.bonus), clk)]
              ELSE t2
    IN  IF a.form = "pending" THEN t1
        ELSE IF is_hit
        THEN [t3 EXCEPT !.hits = @ + 1,
                        !.last_attack_was_player = TRUE,
                        !.crits = IF is_crit THEN @ + 1 ELSE @,
                        !.last_player_hit_was_crit = is_crit,
                        !.target_ac = IF a.total # None /\ @ # None
                                      THEN Some(record_hit(Val(@), Val(a.total)))
                                      ELSE @]
        ELSE IF is_miss
        THEN [t3 EXCEPT !.misses = @ + 1,
                        !.target_ac = IF a.total # None /\ @ # None
                                      THEN Some(record_miss(Val(@), Val(a.total), was_nat1))
                                      ELSE @]
        ELSE t3

(* lines 317-341 *)
PlayerAttack(t, a, clk) ==
    LET outcome == a.outcome
        is_hit == HasHit(outcome) /\ ~HasMiss(outcome)
        is_crit == HasCritical(outcome)
        is_miss == outcome \in {"miss", "parried", "resisted"}
        was_nat1 == IF a.roll # None /\ Val(a.roll) # 0 THEN Val(a.roll) = 1 ELSE FALSE
        t1 == update_encounter_time(set_target(t, a.target), clk)
        t2 == IF a.conceal # None THEN [t1 EXCEPT !.target_conceal_pct = a.conceal] ELSE t1
        t3 == IF a.bonus # None
              THEN [t2 EXCEPT !.attack_bonus = ab_update(@, Val(a.bonus), clk)]
              ELSE t2
    IN  IF a.form = "pending" THEN t3
        ELSE IF is_hit
        THEN [t3 EXCEPT !.hits = @ + 1,
                        !.last_attack_was_player = TRUE,
                        !.crits = IF is_crit THEN @ + 1 ELSE @,
                        !.last_player_hit_was_crit = is_crit,
                        !.target_ac = IF a.total # None /\ @ # None
                                      THEN Some(record_hit(Val(@), Val(a.total)))
                                      ELSE @]
        ELSE IF is_miss
        THEN [t3 EXCEPT !.misses = @ + 1,
                        !.target_ac = IF a.total # None /\ @ # None
                                      THEN Some(record_miss(Val(@), Val(a.total), was_nat1))
                                      ELSE @]
        ELSE t3

(* TargetAttack clearing last_attack_was_player on any outcome *)
TargetAttack_clears_on_miss(t, a, clk) ==
    LET outcome == a.outcome
        is_hit == HasHit(outcome) /\ ~HasMiss(outcome)
        is_crit == HasCritical(outcome)
        t1 == update_encounter_time(set_target(t, a.attacker), clk)
        t2 == IF is_hit
              THEN [t1 EXCEPT !.last_attack_was_player = FALSE,
                              !.target_ab = IF a.bonus # None
                                               /\ (@ = None \/ Val(a.bonus) > Val(@))
                                            THEN a.bonus ELSE @]
              ELSE [t1 EXCEPT !.last_attack_was_player = FALSE]
    IN  IF is_crit THEN [t2 EXCEPT !.last_target_hit_was_crit = TRUE]
        ELSE IF is_hit THEN [t2 EXCEPT !.last_target_hit_was_crit = FALSE]
        ELSE t2

(* lines 343-354 *)
TargetAttack(t, a, clk) ==
    LET outcome == a.outcome
        is_hit == HasHit(outcome) /\ ~HasMiss(outcome)
        is_crit == HasCritical(outcome)
        t1 == update_encounter_time(set_target(t, a.attacker), clk)
        t2 == IF is_hit
              THEN [t1 EXCEPT !.last_attack_was_player = FALSE,
                              !.target_ab = IF a.bonus # None
                                               /\ (@ = None \/ Val(a.bonus) > Val(@))
                                            THEN a.bonus ELSE @]
              ELSE t1
    IN  IF is_crit THEN [t2 EXCEPT !.last_target_hit_was_crit = TRUE]
        ELSE IF is_hit THEN [t2 EXCEPT !.last_target_hit_was_crit = FALSE]
        ELSE t2

(* lines 300-354 *)
AttackStage(t, l, clk) ==
    IF l.atk = None THEN t
    ELSE LET a == Val(l.atk)
         IN  IF is_player(t, a.attacker) /\ matches_target(t, a.target)
             THEN PlayerAttack(t, a, clk)
             ELSE IF matches_target(t, a.attacker) /\ is_player(t, a.target)
             THEN TargetAttack(t, a, clk)
             ELSE t

(* lines 356-367 *)
ConcealMissStage(t, l, clk) ==
    IF l.atk # None \/ l.cmiss = None THEN t
    ELSE LET c == Val(l.cmiss)
         IN  IF is_player(t, c.attacker) /\ matches_target(t, c.target)
             THEN [update_encounter_time(set_target(t, c.target), clk)
                      EXCEPT !.target_conceal_pct = Some(c.conceal),
                             !.conceals = @ + 1]
             ELSE t

(* lines 369-386 *)
LowerWord(w) ==
    CASE w \in {"Fort", "FORT", "fort"} -> "fort"
      [] w \in {"Fortitude", "fortitude"} -> "fortitude"
      [] w \in {"Reflex", "REFLEX", "reflex"} -> "reflex"
      [] w \in {"Will", "WILL", "will"} -> "will"
      [] OTHER -> w

SaveKey(save_type) ==
    IF save_type \in {"fort", "fortitude"} THEN "fort"
    ELSE IF save_type = "reflex" THEN "ref"
    ELSE "will"

SaveStage(t, l, clk) ==
    IF l.save = None THEN t
    ELSE LET s == Val(l.save)
         IN  IF matches_target(t, s.target)
             THEN LET t1 == update_encounter_time(set_target(t, s.target), clk)
                  IN  IF t1.target_saves # None
                      THEN [t1 EXCEPT !.target_saves =
                               Some(update_save(Val(@), SaveKey(LowerWord(s.save_type)), s.bonus))]
                      ELSE t1
             ELSE t

(* lines 388-444 *)
RECURSIVE AllTypes(_)
AllTypes(bd) ==
    IF bd = <<>> THEN <<>>
    ELSE <<<<Title(bd[1][2]), bd[1][1]>>>> \o AllTypes(Tail(bd))

RECURSIVE NonzeroTypes(_)
NonzeroTypes(bd) ==
    IF bd = <<>> THEN <<>>
    ELSE IF bd[1][1] > 0
         THEN <<<<Title(bd[1][2]), bd[1][1]>>>> \o NonzeroTypes(Tail(bd))
         ELSE NonzeroTypes(Tail(bd))

RECURSIVE TakenByType(_, _)
TakenByType(d, bd) ==
    IF bd = <<>> THEN d
    ELSE TakenByType(DictAppend(d, Title(bd[1][2]), bd[1][1]), Tail(bd))

(* DamageDealt keeping the zero-amount components in damage_types *)
DamageDealt_counts_zero(t, d, clk) ==
    LET t1 == update_encounter_time(set_target(t, d.target), clk)
        damage_types == IF d.breakdown # None THEN AllTypes(Val(d.breakdown)) ELSE <<>>
        is_single_type == d.breakdown # None /\ Len(damage_types) = 1
    IN  IF is_single_type
        THEN LET dtype == damage_types[1][1]
             IN  IF t1.last_attack_was_player
                 THEN [t1 EXCEPT !.weapon_buff_damage_total = @ + d.amount,
                                 !.weapon_buff_damage_by_type = DictAdd(@, dtype, d.amount)]
                 ELSE [t1 EXCEPT !.shield_damage_total = @ + d.amount,
                                 !.shield_damage_by_type = DictAdd(@, dtype, d.amount)]
        ELSE IF t1.last_player_hit_was_crit
             THEN [t1 EXCEPT !.damage_dealt = @ + d.amount,
                             !.damage_dealt_crits = Append(@, d.amount)]
             ELSE [t1 EXCEPT !.damage_dealt = @ + d.amount,
                             !.damage_dealt_normal = Append(@, d.amount)]

(* DamageDealt adding the component's own amount to the per-type map *)
DamageDealt_by_type_component(t, d, clk) ==
    LET t1 == update_encounter_time(set_target(t, d.target), clk)
        damage_types == IF d.breakdown # None THEN NonzeroTypes(Val(d.breakdown)) ELSE <<>>
        is_single_type == d.breakdown # None /\ Len(damage_types) = 1
    IN  IF is_single_type
        THEN LET dtype == damage_types[1][1]
                 damount == damage_types[1][2]
             IN  IF t1.last_attack_was_player
                 THEN [t1 EXCEPT !.weapon_buff_damage_total = @ + d.amount,
                                 !.weapon_buff_damage_by_type = DictAdd(@, dtype, damount)]
                 ELSE [t1 EXCEPT !.shield_damage_total = @ + d.amount,
                                 !.shield_damage_by_type = DictAdd(@, dtype, damount)]
        ELSE IF t1.last_player_hit_was_crit
             THEN [t1 EXCEPT !.damage_dealt = @ + d.amount,
                             !.damage_dealt_crits = Append(@, d.amount)]
             ELSE [t1 EXCEPT !.damage_dealt = @ + d.amount,
                             !.damage_dealt_normal = Append(@, d.amount)]

DamageDealt(t, d, clk) ==
    LET t1 == update_encounter_time(set_target(t, d.target), clk)
        damage_types == IF d.breakdown # None THEN NonzeroTypes(Val(d.breakdown)) ELSE <<>>
        is_single_type == d.breakdown # None /\ Len(damage_types) = 1
    IN  IF is_single_type
        THEN LET dtype == damage_types[1][1]
             IN  IF t1.last_attack_was_player
                 THEN [t1 EXCEPT !.weapon_buff_damage_total = @ + d.amount,
                                 !.weapon_buff_damage_by_type = DictAdd(@, dtype, d.amount)]
                 ELSE [t1 EXCEPT !.shield_damage_total = @ + d.amount,
                                 !.shield_damage_by_type = DictAdd(@, dtype, d.amount)]
        ELSE IF t1.last_player_hit_was_crit
             THEN [t1 EXCEPT !.damage_dealt = @ + d.amount,
                             !.damage_dealt_crits = Append(@, d.amount)]
             ELSE [t1 EXCEPT !.damage_dealt = @ + d.amount,
                             !.damage_dealt_normal = Append(@, d.amount)]

(* DamageTaken leaving the zero-amount components out of the per-type map *)
DamageTaken_skips_zero(t, d, clk) ==
    LET t1 == update_encounter_time(set_target(t, d.attacker), clk)
    IN  [t1 EXCEPT !.damage_taken = Append(@, d.amount),
                   !.damage_taken_by_type =
                       IF d.breakdown # None
                       THEN TakenByType(@, SelectSeq(Val(d.breakdown), LAMBDA c : c[1] > 0))
                       ELSE @]

DamageTaken(t, d, clk) ==
    LET t1 == update_encounter_time(set_target(t, d.attacker), clk)
    IN  [t1 EXCEPT !.damage_taken = Append(@, d.amount),
                   !.damage_taken_by_type =
                       IF d.breakdown # None THEN TakenByType(@, Val(d.breakdown)) ELSE @]

DamageStage(t, l, clk) ==
    IF l.dmg = None THEN t
    ELSE LET d == Val(l.dmg)
         IN  IF is_player(t, d.attacker) /\ matches_target(t, d.target)
             THEN DamageDealt(t, d, clk)
             ELSE IF matches_target(t, d.attacker) /\ is_player(t, d.target)
             THEN DamageTaken(t, d, clk)
             ELSE t

(* lines 446-454 *)
PotionStage(t, l, clk) ==
    IF l.potion = None THEN t
    ELSE LET user == Val(l.potion).user
         IN  IF is_player(t, user) THEN [t EXCEPT !.player_pots = @ + 1]
             ELSE IF matches_target(t, user)
             THEN [update_encounter_time(set_target(t, user), clk)
                      EXCEPT !.target_pots = @ + 1]
             ELSE t

(* lines 456-462 *)
UndeadHealStage(t, l, clk) ==
    IF l.heal = None THEN t
    ELSE LET caster == Val(l.heal).caster
         IN  IF matches_target(t, caster)
             THEN [update_encounter_time(set_target(t, caster), clk)
                      EXCEPT !.target_pots = @ + 1]
             ELSE t

(* lines 464-470 *)
KillStage(t, l, clk) ==
    IF l.kill = None THEN t
    ELSE LET k == Val(l.kill)
             target == RStripPunct(Strip(k.target))
         IN  IF is_player(t, k.killer) /\ matches_target(t, target)
             THEN [t EXCEPT !.target_dead = TRUE, !.kill_time = Some(clk)]
             ELSE t

(* parse_line dropping every line once the opponent is marked dead *)
parse_line_stops_after_kill(t, l, clk) ==
    IF t.target_dead THEN t
    ELSE LET s1 == AttackStage(t, l, clk)
             s2 == ConcealMissStage(s1, l, clk)
             s3 == SaveStage(s2, l, clk)
             s4 == DamageStage(s3, l, clk)
             s5 == PotionStage(s4, l, clk)
             s6 == UndeadHealStage(s5, l, clk)
         IN  KillStage(s6, l, clk)

(* parse_line: the stages in the order of the method *)
parse_line(t, l, clk) ==
    LET s1 == AttackStage(t, l, clk)
        s2 == ConcealMissStage(s1, l, clk)
        s3 == SaveStage(s2, l, clk)
        s4 == DamageStage(s3, l, clk)
        s5 == PotionStage(s4, l, clk)
        s6 == UndeadHealStage(s5, l, clk)
    IN  KillStage(s6, l, clk)

----------------------------------------------------------------------------
(* History of the session's resolved attacks (not program state):          *)
(*   player_attack  outcome of the last resolved player attack on the      *)
(*                  opponent: "none", "hit", "crit" or "miss"              *)
(*   player_hit     kind of the last resolved player hit: "none", "hit"    *)
(*                  or "crit"                                              *)
(*   exchange       the last resolved attack of either side: "none",       *)
(*                  "player_hit", "player_miss", "target_hit", "target_miss" *)
(*   hit_side       who landed the last resolved hit: "none", "player"     *)
(*                  or "target"                                            *)

NoPrev ==
    [player_attack |-> "none", player_hit |-> "none",
     exchange |-> "none", hit_side |-> "none"]

PrevAfter(t, l, p) ==
    IF l.atk = None THEN p
    ELSE LET a == Val(l.atk)
             is_hit == a.outcome \in {"hit", "critical hit"}
             is_miss == a.outcome \in {"miss", "parried", "resisted"}
             kind == IF a.outcome = "critical hit" THEN "crit" ELSE "hit"
         IN  IF is_player(t, a.attacker) /\ matches_target(t, a.target)
             THEN IF a.form = "pending" THEN p
                  ELSE IF is_hit
                  THEN [player_attack |-> kind, player_hit |-> kind,
                        exchange |-> "player_hit", hit_side |-> "player"]
                  ELSE IF is_miss
                  THEN [p EXCEPT !.player_attack = "miss", !.exchange = "player_miss"]
                  ELSE p
             ELSE IF matches_target(t, a.attacker) /\ is_player(t, a.target)
             THEN IF is_hit
                  THEN [p EXCEPT !.exchange = "target_hit", !.hit_side = "target"]
                  ELSE IF is_miss
                  THEN [p EXCEPT !.exchange = "target_miss"]
                  ELSE p
             ELSE p

----------------------------------------------------------------------------
(* Actions *)

ParseLine(l) ==
    /\ nlines < MaxLines
    /\ tracker' = parse_line(tracker, l, now)
    /\ nlines' = nlines + 1
    /\ last' = [op |-> "parse_line", line |-> l]
    /\ prev' = PrevAfter(tracker, l, prev)
    /\ UNCHANGED <<now, display, aux>>

Reset ==
    /\ tracker' = reset(tracker)
    /\ last' = [op |-> "reset", line |-> NoLine]
    /\ prev' = NoPrev
    /\ UNCHANGED <<now, display, nlines, aux>>

(* _render_stats: refreshes the rolling window, then writes the estimate *)
RenderStats ==
    /\ tracker' = [tracker EXCEPT !.attack_bonus = ab_refresh(@, now)]
    /\ display' = IF tracker.target_name # <<>> /\ tracker.target_ac # None
                  THEN Some(get_ac_estimate(Val(tracker.target_ac)))
                  ELSE None
    /\ last' = [op |-> "render", line |-> NoLine]
    /\ UNCHANGED <<now, nlines, prev, aux>>

Advance(limit) ==
    /\ now + TickStep <= limit
    /\ now' = now + TickStep
    /\ UNCHANGED <<tracker, display, nlines, last, prev, aux>>

Tick == Advance(MaxTime)

TickLong == Advance(MaxTimeLong)

(* the tail thread is not inside parse_line *)
IdleTail == [pc |-> 0, line |-> NoLine, branch |-> "none", before |-> None]

(* no raw line is being stripped *)
NoStrip == [raw |-> <<>>, text |-> <<>>, applied |-> 0, before |-> <<>>]

(* NWNTrackerGUI.__init__: not running, offset 0 *)
NewGui == [running |-> FALSE, file_position |-> 0]

EmptyLog == [content |-> <<>>, written |-> 0]

(* the display timer is not inside a handler *)
IdleTimer == [pc |-> "idle", filtered |-> <<>>]

(* a thread slot: pc "none" before Thread.start(), "done" after the loop exits *)
NoLoop == [pc |-> "none", size |-> 0, offset |-> 0, batch |-> <<>>]

InitWith(cfgs) ==
    /\ now = 0
    /\ \E cfg \in cfgs : tracker = NewTracker(cfg, 0)
    /\ display = None
    /\ nlines = 0
    /\ last = [op |-> "init", line |-> NoLine]
    /\ prev = NoPrev
    /\ probe = None
    /\ stripped = NoStrip
    /\ tail = IdleTail
    /\ gui = NewGui
    /\ logfile = EmptyLog
    /\ loops = [k \in 1..MaxThreads |-> NoLoop]
    /\ fed = <<>>
    /\ timer = IdleTimer

----------------------------------------------------------------------------
(* Names, configurations and lines used as inputs *)

Az == <<"A", "z">>
Ko == <<"K", "o">>
KoUpperDot == <<"K", "O", ".">>
Kob == <<"K", "o", "b">>
Gob == <<"G", "o", "b">>
Dot == <<".">>

CfgLock == [player_name |-> Az, target_filter |-> <<>>, exact_match |-> FALSE, auto_track |-> TRUE]
CfgSub == [player_name |-> Az, target_filter |-> Ko, exact_match |-> FALSE, auto_track |-> FALSE]
CfgExact == [player_name |-> Az, target_filter |-> Ko, exact_match |-> TRUE, auto_track |-> FALSE]

AtkLine(form, attacker, target, outcome, roll, bonus, total, conceal) ==
    [NoLine EXCEPT !.atk = Some([form |-> form, attacker |-> attacker, target |-> target,
                                 outcome |-> outcome, roll |-> roll, bonus |-> bonus,
                                 total |-> total, conceal |-> conceal])]

(* "<who> attacks <whom>: *<outcome>*: (<roll> + <bonus> = <total>)" *)
Rolled(attacker, target, outcome, roll, bonus, total) ==
    AtkLine("plain", attacker, target, outcome, Some(roll), Some(bonus), Some(total), None)

(* "<who> attacks <whom>: *<outcome>*" *)
Bare(attacker, target, outcome) ==
    AtkLine("plain", attacker, target, outcome, None, None, None, None)

ConcealMissLine(attacker, target, pct) ==
    [NoLine EXCEPT !.cmiss = Some([attacker |-> attacker, target |-> target, conceal |-> pct])]

SaveLine(target, save_type, bonus) ==
    [NoLine EXCEPT !.save = Some([target |-> target, save_type |-> save_type, bonus |-> bonus])]

DmgLine(attacker, target, amount, breakdown) ==
    [NoLine EXCEPT !.dmg = Some([attacker |-> attacker, target |-> target,
                                 amount |-> amount, breakdown |-> breakdown])]

PotionLine(user) == [NoLine EXCEPT !.potion = Some([user |-> user])]

HealLine(caster) == [NoLine EXCEPT !.heal = Some([caster |-> caster])]

KillLine(killer, target) ==
    [NoLine EXCEPT !.kill = Some([killer |-> killer, target |-> target])]

----------------------------------------------------------------------------
(* Spec: opponent identity and the kill line *)

IdentityLines ==
    { Rolled(Az, Ko, "hit", 10, 5, 15),
      Rolled(Az, Gob, "hit", 10, 5, 12),
      Bare(Az, KoUpperDot, "miss"),
      SaveLine(Kob, "Will", 4),
      DmgLine(Gob, Az, 7, None),
      PotionLine(Ko),
      HealLine(Gob),
      KillLine(Az, KoUpperDot),
      KillLine(Az, Gob),
      NoLine }

Init == InitWith({CfgLock, CfgSub, CfgExact})

Next ==
    \/ \E l \in IdentityLines : ParseLine(l)
    \/ Reset
    \/ Tick

Spec == Init /\ [][Next]_vars

----------------------------------------------------------------------------
(* Claims checked under Spec *)

SaveFields == {"fortitude", "reflex", "will"}

SavesKept(old, new) ==
    /\ new # None
    /\ Val(new).name = Val(old).name
    /\ \A f \in SaveFields : Val(old)[f] # None => Val(new)[f] # None

ACKept(old, new) ==
    /\ new # None
    /\ Val(new).name = Val(old).name
    /\ \A f \in {"min_hit", "max_miss"} : Val(old)[f] # None => Val(new)[f] # None

(* C1: once an opponent is bound (target_name non-empty), no parse_line call *)
(* changes target_name or replaces the EnemySaves / EnemyAC trackers (their  *)
(* name stays and no recorded value is lost to a fresh tracker).             *)
C1_TargetBoundOnce ==
    [][(tracker.target_name # <<>> /\ last'.op = "parse_line")
        => /\ tracker'.target_name = tracker.target_name
           /\ SavesKept(tracker.target_saves, tracker'.target_saves)
           /\ ACKept(tracker.target_ac, tracker'.target_ac)]_vars

(* C1 witness: with filter "ko" the opponent is bound to "Ko", and a later  *)
(* save line of "Kob" (also matching) was applied to Ko's trackers.         *)
C1_Witness ==
    /\ tracker.target_name = Ko
    /\ Val(tracker.target_ac).min_hit = Some(15)
    /\ last.op = "parse_line"
    /\ last.line = SaveLine(Kob, "Will", 4)
    /\ Val(tracker.target_saves).name = Ko
    /\ Val(tracker.target_saves).will = Some(4)

KillMatches(t, l) ==
    /\ l.kill # None
    /\ is_player(t, Val(l.kill).killer)
    /\ matches_target(t, RStripPunct(Strip(Val(l.kill).target)))

(* C2 as claimed: once a kill line naming the player as killer and the bound *)
(* opponent as victim has set target_dead and kill_time, a second identical  *)
(* line leaves kill_time at the value the first one set.                     *)
C2_KillTimeSetOnce ==
    [][(/\ tracker.target_name # <<>>
        /\ tracker.target_dead
        /\ last.op = "parse_line"
        /\ KillMatches(tracker, last.line)
        /\ last'.op = "parse_line"
        /\ last'.line = last.line)
        => tracker'.kill_time = tracker.kill_time]_vars

----------------------------------------------------------------------------
(* SpecAttack: attack lines of every form, and the AC estimate *)

PendingLine == AtkLine("pending", Az, Ko, "", Some(10), Some(5), Some(15), Some(50))

AttackLines ==
    { Rolled(Az, Ko, "hit", 10, 5, 15),
      Rolled(Az, Ko, "critical hit", 7, 5, 12),
      Rolled(Az, Ko, "miss", 9, 5, 14),
      Rolled(Az, Ko, "resisted", 12, 5, 17),
      Rolled(Az, Ko, "miss", 1, 19, 20),
      Bare(Az, Ko, "parried"),
      PendingLine,
      AtkLine("conceal", Az, Ko, "miss", Some(5), Some(5), Some(10), Some(20)),
      ConcealMissLine(Az, Ko, 50),
      Rolled(Ko, Az, "hit", 10, 12, 22),
      Rolled(Az, Dot, "hit", 6, 5, 11),
      Rolled(Az, Gob, "hit", 8, 5, 13) }

InitAttack == InitWith({CfgLock, CfgSub})

NextAttack ==
    \/ \E l \in AttackLines : ParseLine(l)
    \/ RenderStats
    \/ Reset

SpecAttack == InitAttack /\ [][NextAttack]_vars

Attempts(t) == t.hits + t.misses + t.conceals

(* the line carries a resolved (non-pending) attack of the player on the opponent *)
ResolvedPlayerAttack(t, l) ==
    /\ l.atk # None
    /\ Val(l.atk).form # "pending"
    /\ is_player(t, Val(l.atk).attacker)
    /\ matches_target(t, Val(l.atk).target)

(* the line is a concealment-only miss of the player on the opponent *)
ConcealOnlyMiss(t, l) ==
    /\ l.atk = None
    /\ l.cmiss # None
    /\ is_player(t, Val(l.cmiss).attacker)
    /\ matches_target(t, Val(l.cmiss).target)

(* C4: hits + misses + conceals never decreases except by reset(); one      *)
(* parse_line call raises it by exactly one for a resolved player attack on  *)
(* the opponent or a concealment-only miss, and by zero otherwise.           *)
C4_AttemptsCount ==
    [][/\ (nlines' = nlines + 1)
            => Attempts(tracker') - Attempts(tracker) =
                 IF ResolvedPlayerAttack(tracker, last'.line)
                    \/ ConcealOnlyMiss(tracker, last'.line)
                 THEN 1 ELSE 0
       /\ (Attempts(tracker') < Attempts(tracker)) => last'.op = "reset"]_vars

(* C4 witness: a hit, a concealment-only miss, then a pending line that     *)
(* leaves the total at two.                                                  *)
C4_Witness ==
    /\ last.op = "parse_line"
    /\ last.line = PendingLine
    /\ tracker.hits = 1
    /\ tracker.conceals = 1
    /\ tracker.misses = 0
    /\ nlines = 3

MinHitOf(t) == IF t.target_ac = None THEN None ELSE Val(t.target_ac).min_hit
MaxMissOf(t) == IF t.target_ac = None THEN None ELSE Val(t.target_ac).max_miss

(* C5 as claimed: over parse_line calls min_hit, once known, never increases *)
(* and is the minimum total of the resolved player hits seen; max_miss, once *)
(* known, never decreases and is the maximum total of the resolved player    *)
(* misses seen that were not a natural 1.                                    *)
C5_ACBoundsTighten ==
    [][(nlines' = nlines + 1) =>
        LET l == last'.line
            a == Val(l.atk)
            resolved == ResolvedPlayerAttack(tracker, l) /\ a.total # None
            hit == resolved /\ a.outcome \in {"hit", "critical hit"}
            miss == resolved /\ a.outcome \in {"miss", "parried", "resisted"}
                             /\ a.roll # Some(1)
            mh == MinHitOf(tracker)
            mm == MaxMissOf(tracker)
        IN  /\ MinHitOf(tracker') =
                 IF hit THEN (IF mh = None THEN a.total
                              ELSE Some(Min2(Val(mh), Val(a.total))))
                 ELSE mh
            /\ MaxMissOf(tracker') =
                 IF miss THEN (IF mm = None THEN a.total
                               ELSE Some(Max2(Val(mm), Val(a.total))))
                 ELSE mm]_vars

(* C6: the estimate _render_stats shows is: min_hit when max_miss + 1 =      *)
(* min_hit; the range max_miss+1 - min_hit when max_miss + 1 < min_hit;      *)
(* ~min_hit when max_miss >= min_hit; an upper bound on min_hit when only    *)
(* min_hit is known; "> max_miss" when only max_miss is known; "?" when      *)
(* neither is known.                                                         *)
C6_ACEstimateForms ==
    (last.op = "render" /\ display # None) =>
        LET mh == MinHitOf(tracker)
            mm == MaxMissOf(tracker)
            shown == Val(display)
        IN  /\ (mh # None /\ mm # None /\ Val(mm) + 1 = Val(mh))
                  => shown = ToString(Val(mh))
            /\ (mh # None /\ mm # None /\ Val(mm) + 1 < Val(mh))
                  => shown = ToString(Val(mm) + 1) \o "-" \o ToString(Val(mh))
            /\ (mh # None /\ mm # None /\ Val(mm) >= Val(mh))
                  => shown = "~" \o ToString(Val(mh))
            /\ (mh # None /\ mm = None) => shown = "<=" \o ToString(Val(mh))
            /\ (mh = None /\ mm # None) => shown = ">" \o ToString(Val(mm))
            /\ (mh = None /\ mm = None) => shown = "?"

(* C6 witness: contradictory bounds (a miss at 17 above a hit at 15) shown   *)
(* in the approximate form.                                                  *)
C6_Witness ==
    /\ last.op = "render"
    /\ MinHitOf(tracker) = Some(15)
    /\ MaxMissOf(tracker) = Some(17)
    /\ display = Some("~15")

----------------------------------------------------------------------------
(* SpecAB: the rolling attack-bonus window, fed by player attack lines      *)
(* (AttackBonus.update) and refreshed by the display (AttackBonus.refresh)   *)

BonusLines ==
    { Rolled(Az, Ko, "hit", 10, 5, 15),
      Rolled(Az, Ko, "hit", 10, 8, 18) }

InitAB == InitWith({CfgLock})

NextAB ==
    \/ \E l \in BonusLines : ParseLine(l)
    \/ RenderStats
    \/ TickLong

SpecAB == InitAB /\ [][NextAB]_vars

(* the observations of a list that are inside the window at time clk *)
Live(recent, clk) == SelectSeq(recent, LAMBDA o : o[1] > clk - window_seconds)
Expired(recent, clk) == SelectSeq(recent, LAMBDA o : o[1] <= clk - window_seconds)

(* C3 as claimed: after every update() and refresh() at time t, max_observed *)
(* is the maximum bonus among the observations newer than t - window, and an *)
(* observation older than the window does not contribute to it.              *)
C3_RollingMax ==
    [][(now' = now /\ (nlines' = nlines + 1 \/ last'.op = "render")) =>
        LET ab == tracker'.attack_bonus
            live == Live(ab.recent_attacks, now)
            old == Expired(tracker.attack_bonus.recent_attacks, now)
        IN  /\ ab.recent_attacks = live
            /\ live # <<>> => ab.max_observed = SeqMax(Bonuses(live))
            /\ live = <<>> =>
                 \A i \in 1..Len(old) : ab.max_observed # old[i][2]]_vars

----------------------------------------------------------------------------
(* SpecSaves: saving-throw lines *)

SaveLines ==
    { SaveLine(Ko, "Fort", 3),
      SaveLine(Ko, "Fortitude", 5),
      SaveLine(Ko, "Reflex", 4),
      SaveLine(KoUpperDot, "WILL", 2),
      SaveLine(Kob, "Will", 6),
      SaveLine(Gob, "Reflex", 7),
      SaveLine(Dot, "Will", 1),
      SaveLine(Az, "Will", 9) }

InitSaves == InitWith({CfgLock, CfgSub, CfgExact})

NextSaves ==
    \/ \E l \in SaveLines : ParseLine(l)
    \/ Reset
    \/ Tick

SpecSaves == InitSaves /\ [][NextSaves]_vars

SaveOf(t, f) == IF t.target_saves = None THEN None ELSE Val(t.target_saves)[f]

(* the save field a save-type word names *)
FieldOfWord(w) ==
    IF w \in {"Fort", "fort", "FORT", "Fortitude", "fortitude"} THEN "fortitude"
    ELSE IF w \in {"Reflex", "reflex", "REFLEX"} THEN "reflex"
    ELSE "will"

(* C7 as claimed: each save field is unknown or the maximum bonus of the     *)
(* save lines of its kind attributed to the opponent so far: a parse_line    *)
(* call raises the field of the line's kind to the line's bonus when that is *)
(* larger (or the field is unknown), and changes no field otherwise; so a    *)
(* field never decreases and never returns to unknown before reset().        *)
C7_SavesRunningMax ==
    [][(nlines' = nlines + 1) =>
        LET l == last'.line
            s == Val(l.save)
            attributed == l.save # None /\ matches_target(tracker, s.target)
        IN  \A f \in SaveFields :
               LET old == SaveOf(tracker, f)
               IN  SaveOf(tracker', f) =
                     IF attributed /\ FieldOfWord(s.save_type) = f
                     THEN (IF old = None THEN Some(s.bonus)
                           ELSE Some(Max2(Val(old), s.bonus)))
                     ELSE old]_vars

----------------------------------------------------------------------------
(* SpecDamage: attacks of both sides and damage lines of every breakdown *)

PlainDmg == DmgLine(Az, Ko, 9, None)
SingleDmg == DmgLine(Az, Ko, 5, Some(<< <<5, "fire">> >>))
SingleWithZeroDmg == DmgLine(Az, Ko, 6, Some(<< <<6, "Physical">>, <<0, "Fire">> >>))
MultiDmg == DmgLine(Az, Ko, 7, Some(<< <<4, "Physical">>, <<3, "FIRE">> >>))
ZeroDmg == DmgLine(Az, Ko, 0, Some(<< <<0, "Physical">> >>))

DamageLines ==
    { Rolled(Az, Ko, "hit", 10, 5, 15),
      Rolled(Az, Ko, "critical hit", 19, 5, 24),
      Bare(Az, Ko, "miss"),
      Rolled(Ko, Az, "hit", 10, 12, 22),
      Bare(Ko, Az, "miss"),
      PlainDmg, SingleDmg, SingleWithZeroDmg, MultiDmg, ZeroDmg,
      DmgLine(Ko, Az, 8, Some(<< <<8, "Physical">>, <<0, "cold">> >>)),
      DmgLine(Az, Gob, 3, None) }

InitDamage == InitWith({CfgLock, CfgSub})

NextDamage ==
    \/ \E l \in DamageLines : ParseLine(l)
    \/ Reset

SpecDamage == InitDamage /\ [][NextDamage]_vars

TypeNames == {"Fire", "Cold", "Physical", "fire", "FIRE", "cold", "physical"}

DictGet(d, k) == IF k \in DOMAIN d THEN d[k] ELSE 0

(* the line carries damage of the player on the opponent *)
PlayerDamage(t, l) ==
    /\ l.dmg # None
    /\ is_player(t, Val(l.dmg).attacker)
    /\ matches_target(t, Val(l.dmg).target)

(* positions of the nonzero components of a damage line's breakdown *)
NonzeroAt(d) ==
    IF d.breakdown = None THEN {}
    ELSE {i \in 1..Len(Val(d.breakdown)) : Val(d.breakdown)[i][1] # 0}

PlainUnchanged(t, u) ==
    /\ u.damage_dealt = t.damage_dealt
    /\ u.damage_dealt_crits = t.damage_dealt_crits
    /\ u.damage_dealt_normal = t.damage_dealt_normal

BuffUnchanged(t, u) ==
    /\ u.weapon_buff_damage_total = t.weapon_buff_damage_total
    /\ u.weapon_buff_damage_by_type = t.weapon_buff_damage_by_type

ReflectUnchanged(t, u) ==
    /\ u.shield_damage_total = t.shield_damage_total
    /\ u.shield_damage_by_type = t.shield_damage_by_type

(* amount added to a total and to the entry of type ty, other entries kept *)
LedgerAdded(total, byType, total2, byType2, ty, amount) ==
    /\ total2 = total + amount
    /\ ty \in DOMAIN byType2
    /\ \A k \in TypeNames \cup DOMAIN byType \cup DOMAIN byType2 :
          DictGet(byType2, k) = DictGet(byType, k) + (IF k = ty THEN amount ELSE 0)

AddedToBuff(t, u, ty, amount) ==
    LedgerAdded(t.weapon_buff_damage_total, t.weapon_buff_damage_by_type,
                u.weapon_buff_damage_total, u.weapon_buff_damage_by_type, ty, amount)

AddedToReflect(t, u, ty, amount) ==
    LedgerAdded(t.shield_damage_total, t.shield_damage_by_type,
                u.shield_damage_total, u.shield_damage_by_type, ty, amount)

AddedToCrits(t, u, amount) ==
    /\ u.damage_dealt_crits = Append(t.damage_dealt_crits, amount)
    /\ u.damage_dealt_normal = t.damage_dealt_normal

AddedToNormal(t, u, amount) ==
    /\ u.damage_dealt_normal = Append(t.damage_dealt_normal, amount)
    /\ u.damage_dealt_crits = t.damage_dealt_crits

(* the capitalised name of a damage type, as the ledgers key it *)
Capitalised(ty) ==
    IF ty \in {"fire", "FIRE", "Fire"} THEN "Fire"
    ELSE IF ty \in {"cold", "Cold"} THEN "Cold"
    ELSE "Physical"

(* C8: a damage line of the player on the opponent changes one ledger       *)
(* family: with exactly one nonzero component the amount goes to the buff or *)
(* the reflect ledger (total and that type's entry) and the plain ledger is  *)
(* unchanged; otherwise it goes to damage_dealt and to exactly one of the    *)
(* crit / normal lists, and the buff and reflect ledgers are unchanged.      *)
C8_DamageOneLedger ==
    [][(nlines' = nlines + 1 /\ PlayerDamage(tracker, last'.line)) =>
        LET d == Val(last'.line.dmg)
            nz == NonzeroAt(d)
            t == tracker
            u == tracker'
        IN  IF Cardinality(nz) = 1
            THEN LET ty == Capitalised(Val(d.breakdown)[CHOOSE i \in nz : TRUE][2])
                 IN  /\ PlainUnchanged(t, u)
                     /\ \/ AddedToBuff(t, u, ty, d.amount) /\ ReflectUnchanged(t, u)
                        \/ AddedToReflect(t, u, ty, d.amount) /\ BuffUnchanged(t, u)
            ELSE /\ BuffUnchanged(t, u)
                 /\ ReflectUnchanged(t, u)
                 /\ u.damage_dealt = t.damage_dealt + d.amount
                 /\ AddedToCrits(t, u, d.amount) \/ AddedToNormal(t, u, d.amount)]_vars

(* C8 witness: after a player hit, "6 (6 Physical 0 Fire)" went to the buff *)
(* ledger under Physical, and a following "7 (4 Physical 3 FIRE)" went to    *)
(* the plain ledger.                                                         *)
C8_Witness ==
    /\ last.op = "parse_line"
    /\ last.line = MultiDmg
    /\ tracker.weapon_buff_damage_total = 6
    /\ tracker.weapon_buff_damage_by_type = ("Physical" :> 6)
    /\ tracker.damage_dealt = 7
    /\ tracker.damage_dealt_normal = <<7>>
    /\ tracker.shield_damage_total = 0

PlainPlayerDamage(t, l) ==
    PlayerDamage(t, l) /\ Cardinality(NonzeroAt(Val(l.dmg))) # 1

SinglePlayerDamage(t, l) ==
    PlayerDamage(t, l) /\ Cardinality(NonzeroAt(Val(l.dmg))) = 1

(* C9 as claimed: plain weapon damage goes to the crit list exactly when the *)
(* immediately preceding resolved player attack on the opponent was a        *)
(* critical hit, and to the normal list otherwise (a miss included).         *)
C9_CritByLastAttack ==
    [][(nlines' = nlines + 1 /\ PlainPlayerDamage(tracker, last'.line)) =>
        IF prev'.player_attack = "crit"
        THEN AddedToCrits(tracker, tracker', Val(last'.line.dmg).amount)
        ELSE AddedToNormal(tracker, tracker', Val(last'.line.dmg).amount)]_vars

(* C9 amended: plain weapon damage goes to the crit list exactly when the    *)
(* most recent resolved player hit on the opponent in the session was a      *)
(* critical hit, and to the normal list otherwise (no hit yet, or the last   *)
(* hit was not critical); a miss after that hit does not change the list.    *)
C9_CritByLastHit ==
    [][(nlines' = nlines + 1 /\ PlainPlayerDamage(tracker, last'.line)) =>
        IF prev'.player_hit = "crit"
        THEN AddedToCrits(tracker, tracker', Val(last'.line.dmg).amount)
        ELSE AddedToNormal(tracker, tracker', Val(last'.line.dmg).amount)]_vars

(* C9 witness: critical hit, then a miss, then plain damage: in the crit list *)
C9_Witness ==
    /\ last.op = "parse_line"
    /\ last.line = PlainDmg
    /\ prev.player_attack = "miss"
    /\ prev.player_hit = "crit"
    /\ tracker.misses = 1
    /\ tracker.damage_dealt_crits = <<9>>
    /\ tracker.damage_dealt_normal = <<>>

SingleType(l) ==
    LET d == Val(l.dmg)
    IN  Capitalised(Val(d.breakdown)[CHOOSE i \in NonzeroAt(d) : TRUE][2])

WentToBuff(t, u, l) ==
    AddedToBuff(t, u, SingleType(l), Val(l.dmg).amount) /\ ReflectUnchanged(t, u)

WentToReflect(t, u, l) ==
    AddedToReflect(t, u, SingleType(l), Val(l.dmg).amount) /\ BuffUnchanged(t, u)

(* C10 as claimed, in the part every reading of it shares: a single-         *)
(* component amount goes to the buff ledger when the last resolved exchange  *)
(* was a hit of the player, and to the reflect ledger when the last resolved *)
(* player action was not a hit (a miss, or no player attack yet).            *)
C10_BuffByLastPlayerAction ==
    [][(nlines' = nlines + 1 /\ SinglePlayerDamage(tracker, last'.line)) =>
        /\ prev'.exchange = "player_hit"
              => WentToBuff(tracker, tracker', last'.line)
        /\ prev'.player_attack \in {"none", "miss"}
              => WentToReflect(tracker, tracker', last'.line)]_vars

(* C10 amended: a single-component amount goes to the buff ledger when the   *)
(* most recent resolved hit of the session, by either side, was landed by    *)
(* the player, and to the reflect ledger otherwise (the opponent landed the  *)
(* most recent hit, or no hit has been resolved yet); misses of either side  *)
(* do not change the ledger chosen.                                          *)
C10_BuffByLastHitSide ==
    [][(nlines' = nlines + 1 /\ SinglePlayerDamage(tracker, last'.line)) =>
        IF prev'.hit_side = "player"
        THEN WentToBuff(tracker, tracker', last'.line)
        ELSE WentToReflect(tracker, tracker', last'.line)]_vars

(* C10 witness: player hit, then an opponent miss, then "5 (5 fire)": buff   *)
C10_Witness ==
    /\ last.op = "parse_line"
    /\ last.line = SingleDmg
    /\ prev.exchange = "target_miss"
    /\ prev.hit_side = "player"
    /\ tracker.weapon_buff_damage_total = 5
    /\ tracker.weapon_buff_damage_by_type = ("Fire" :> 5)
    /\ tracker.shield_damage_total = 0

----------------------------------------------------------------------------
(* Claims on the concealment-pending line, checked under SpecAttack *)

(* the line is a concealment-pending attack of the player on the opponent *)
PendingPlayerAttack(t, l) ==
    /\ l.atk # None
    /\ Val(l.atk).form = "pending"
    /\ is_player(t, Val(l.atk).attacker)
    /\ matches_target(t, Val(l.atk).target)

----------------------------------------------------------------------------
(* Claims on the first hit in lock mode, checked under SpecAttack *)

(* the line is "P attacks N: *hit*: (r + b = t)" with P the player and N not *)
(* the player                                                                *)
PlayerHitLine(t, l) ==
    /\ l.atk # None
    /\ Val(l.atk).form = "plain"
    /\ Val(l.atk).outcome = "hit"
    /\ Val(l.atk).total # None
    /\ is_player(t, Val(l.atk).attacker)
    /\ ~is_player(t, Val(l.atk).target)

(* C12 as claimed: in lock mode with no opponent bound, a resolved player   *)
(* hit line on N (not the player) binds the opponent to N with trailing      *)
(* '.', '!' and ',' stripped, sets hits to 1, sets min_hit to the total and  *)
(* sets the attack bonus' current to the bonus.                              *)
C12_LockFirstHit ==
    [][(/\ tracker.auto_track
        /\ tracker.target_name = <<>>
        /\ nlines' = nlines + 1
        /\ PlayerHitLine(tracker, last'.line))
        => LET a == Val(last'.line.atk)
           IN  /\ tracker'.target_name = RStripPunct(Strip(a.target))
               /\ tracker'.hits = 1
               /\ MinHitOf(tracker') = a.total
               /\ tracker'.attack_bonus.current = Val(a.bonus)]_vars

----------------------------------------------------------------------------
(* SpecReset: lines of every kind, then reset() *)

TakenDmg == DmgLine(Ko, Az, 7, Some(<< <<7, "Fire">> >>))

ResetLines ==
    { Rolled(Az, Ko, "critical hit", 10, 5, 15),
      Rolled(Az, Ko, "miss", 9, 5, 14),
      Rolled(Ko, Az, "critical hit", 10, 12, 22),
      ConcealMissLine(Az, Ko, 50),
      SaveLine(Ko, "Will", 4),
      MultiDmg,
      PlainDmg,
      TakenDmg,
      PotionLine(Az),
      PotionLine(Ko),
      KillLine(Az, Ko) }

InitReset == InitWith({CfgLock, CfgSub, CfgExact})

NextReset ==
    \/ \E l \in ResetLines : ParseLine(l)
    \/ Reset
    \/ Tick

SpecReset == InitReset /\ [][NextReset]_vars

(* the fields reset() is claimed to restore *)
CounterFields == {"hits", "misses", "crits", "conceals", "target_conceal_pct"}
LedgerFields ==
    {"damage_dealt", "damage_dealt_crits", "damage_dealt_normal",
     "shield_damage_by_type", "shield_damage_total",
     "weapon_buff_damage_by_type", "weapon_buff_damage_total",
     "damage_taken", "damage_taken_by_type"}
PotionFields == {"player_pots", "target_pots"}
IdentityFields == {"target_name", "target_saves", "target_ac", "target_ab"}
TimingFields == {"encounter_start", "encounter_last"}
DeathFields == {"target_dead", "kill_time"}
ConfigFields == {"player_name", "target_filter", "exact_match", "auto_track"}

(* C13: after reset(), whatever lines were processed before, the counters,  *)
(* the damage ledgers, the potion counts, the opponent identity              *)
(* (target_name, saves, AC, target_ab), the encounter timing and the death   *)
(* state have the values of a freshly constructed tracker.                   *)
C13_ResetRestores ==
    [][last'.op = "reset" =>
        LET fresh == NewTracker(CfgLock, 0)
        IN  \A f \in CounterFields \cup LedgerFields \cup PotionFields
                     \cup IdentityFields \cup TimingFields \cup DeathFields :
                tracker'[f] = fresh[f]]_vars

(* C13 witness: reset() was called on a tracker that had a bound, dead      *)
(* opponent (three lines processed: the window still holds bonus 5) and      *)
(* left it with no opponent, no hits and not dead.                           *)
C13_Witness ==
    /\ last.op = "reset"
    /\ nlines = 3
    /\ tracker.attack_bonus.current = 5
    /\ tracker.target_name = <<>>
    /\ tracker.target_ac = None
    /\ tracker.hits = 0
    /\ ~tracker.target_dead
    /\ tracker.kill_time = None
    /\ tracker.encounter_start = None

(* C14: reset() leaves player_name, target_filter, exact_match and          *)
(* auto_track as they were.                                                  *)
C14_ResetKeepsConfig ==
    [][last'.op = "reset" =>
        \A f \in ConfigFields : tracker'[f] = tracker[f]]_vars

(* C14 witness: reset() was called on a tracker with exact filter "ko" that *)
(* had processed three lines, and the filter and flags are still there.      *)
C14_Witness ==
    /\ last.op = "reset"
    /\ nlines = 3
    /\ tracker.attack_bonus.current = 5
    /\ tracker.hits = 0
    /\ tracker.player_name = Az
    /\ tracker.target_filter = Lower(Ko)
    /\ tracker.exact_match
    /\ ~tracker.auto_track

----------------------------------------------------------------------------
(* SpecMatch: _matches_target called directly, in every mode *)

AzDot == <<"A", "z", ".">>
KoSpaced == <<" ", "K", "o", " ">>

CfgLockDot == [player_name |-> AzDot, target_filter |-> <<>>, exact_match |-> FALSE, auto_track |-> TRUE]
CfgNoFilter == [player_name |-> Az, target_filter |-> <<>>, exact_match |-> FALSE, auto_track |-> FALSE]
CfgNoFilterExact == [player_name |-> Az, target_filter |-> <<>>, exact_match |-> TRUE, auto_track |-> FALSE]

MatchNames == {Ko, KoUpperDot, KoSpaced, Kob, Gob, Az, AzDot, Dot}

MatchLines ==
    { Rolled(Az, Ko, "hit", 10, 5, 15),
      Rolled(AzDot, Gob, "hit", 10, 5, 12),
      SaveLine(Kob, "Will", 4),
      HealLine(AzDot) }

(* a call self._matches_target(name) *)
MatchesTarget(name) ==
    /\ probe' = Some([name |-> name, result |-> matches_target(tracker, name)])
    /\ last' = [op |-> "matches_target", line |-> NoLine]
    /\ UNCHANGED <<tracker, now, display, nlines, prev, stripped, tail, gui, logfile, loops, fed, timer>>

InitMatch ==
    InitWith({CfgLock, CfgLockDot, CfgSub, CfgExact, CfgNoFilter, CfgNoFilterExact})

NextMatch ==
    \/ \E l \in MatchLines : ParseLine(l)
    \/ \E n \in MatchNames : MatchesTarget(n)
    \/ Reset

SpecMatch == InitMatch /\ [][NextMatch]_vars

(* the result of a _matches_target call made in the current state *)
Probed == probe # None /\ last.op = "matches_target"

(* C15 as claimed: in lock mode _matches_target(name) is false whenever the *)
(* name is the player (the player name is a case-insensitive substring of    *)
(* it); for a name that is not the player it is, with an opponent locked,    *)
(* true iff the trimmed, punctuation-stripped, lower-cased name equals the   *)
(* opponent's lower-cased name, and with no opponent locked, true.           *)
C15_LockMatch ==
    (Probed /\ tracker.auto_track) =>
        LET n == Val(probe).name
            r == Val(probe).result
        IN  /\ is_player(tracker, n) => ~r
            /\ (~is_player(tracker, n) /\ tracker.target_name # <<>>)
                  => (r <=> Lower(RStripPunct(Strip(n))) = Lower(tracker.target_name))
            /\ (~is_player(tracker, n) /\ tracker.target_name = <<>>) => r

(* C16: in filter mode _matches_target(name) is false for every name when   *)
(* the filter is empty, and then no opponent is ever bound; with a filter it *)
(* is true iff the trimmed, punctuation-stripped, lower-cased name equals    *)
(* the filter (exact mode) or contains it (substring mode).                  *)
C16_FilterMatch ==
    /\ (~tracker.auto_track /\ tracker.target_filter = <<>>)
          => /\ tracker.target_name = <<>>
             /\ tracker.target_saves = None
             /\ tracker.target_ac = None
    /\ (Probed /\ ~tracker.auto_track) =>
          LET n == Lower(RStripPunct(Strip(Val(probe).name)))
              r == Val(probe).result
          IN  /\ tracker.target_filter = <<>> => ~r
              /\ (tracker.target_filter # <<>> /\ tracker.exact_match)
                    => (r <=> n = tracker.target_filter)
              /\ (tracker.target_filter # <<>> /\ ~tracker.exact_match)
                    => (r <=> Contains(n, tracker.target_filter))

(* C16 witness: with the empty filter, after three lines, the name "Ko" was *)
(* probed and did not match, and no opponent is bound.                       *)
C16_Witness ==
    /\ Probed
    /\ ~tracker.auto_track
    /\ tracker.target_filter = <<>>
    /\ nlines = 3
    /\ Val(probe) = [name |-> Ko, result |-> FALSE]
    /\ tracker.target_name = <<>>

----------------------------------------------------------------------------
(* SpecThreads: parse_line on the tail thread (threading.Thread running     *)
(* _tail_log), reset() and _render_stats on the Tk main thread.  No lock is  *)
(* taken anywhere, so the main thread's handlers can run between any two     *)
(* statements of parse_line.  The attack branch of parse_line is taken in    *)
(* the order of its statements: bind and bonus, counters, AC record; then    *)
(* the rest of the method.                                                   *)

(* lines 317 and 343: which branch of the attack block runs *)
AttackBranch(t, l) ==
    IF l.atk = None THEN "none"
    ELSE LET a == Val(l.atk)
         IN  IF is_player(t, a.attacker) /\ matches_target(t, a.target) THEN "player"
             ELSE IF matches_target(t, a.attacker) /\ is_player(t, a.target) THEN "target"
             ELSE "none"

(* lines 318-325 *)
PlayerAttackBind(t, a, clk) ==
    LET t1 == update_encounter_time(set_target(t, a.target), clk)
        t2 == IF a.conceal # None THEN [t1 EXCEPT !.target_conceal_pct = a.conceal] ELSE t1
    IN  IF a.bonus # None
        THEN [t2 EXCEPT !.attack_bonus = ab_update(@, Val(a.bonus), clk)]
        ELSE t2

(* lines 327-335 and 338-339 *)
PlayerAttackCount(t, a) ==
    LET is_hit == HasHit(a.outcome) /\ ~HasMiss(a.outcome)
        is_crit == HasCritical(a.outcome)
        is_miss == a.outcome \in {"miss", "parried", "resisted"}
    IN  IF a.form = "pending" THEN t
        ELSE IF is_hit
        THEN [t EXCEPT !.hits = @ + 1,
                       !.last_attack_was_player = TRUE,
                       !.crits = IF is_crit THEN @ + 1 ELSE @,
                       !.last_player_hit_was_crit = is_crit]
        ELSE IF is_miss THEN [t EXCEPT !.misses = @ + 1]
        ELSE t

(* lines 336-337 and 340-341 *)
PlayerAttackAC(t, a) ==
    LET is_hit == HasHit(a.outcome) /\ ~HasMiss(a.outcome)
        is_miss == a.outcome \in {"miss", "parried", "resisted"}
        was_nat1 == IF a.roll # None /\ Val(a.roll) # 0 THEN Val(a.roll) = 1 ELSE FALSE
    IN  IF a.form = "pending" \/ a.total = None \/ t.target_ac = None THEN t
        ELSE IF is_hit
        THEN [t EXCEPT !.target_ac = Some(record_hit(Val(@), Val(a.total)))]
        ELSE IF is_miss
        THEN [t EXCEPT !.target_ac = Some(record_miss(Val(@), Val(a.total), was_nat1))]
        ELSE t

(* lines 356-470: the method after the attack block *)
AfterAttack(t, l, clk) ==
    LET s2 == ConcealMissStage(t, l, clk)
        s3 == SaveStage(s2, l, clk)
        s4 == DamageStage(s3, l, clk)
        s5 == PotionStage(s4, l, clk)
        s6 == UndeadHealStage(s5, l, clk)
    IN  KillStage(s6, l, clk)

(* the tail thread enters parse_line with the next line *)
TailBegin(l) ==
    /\ tail.pc = 0
    /\ nlines < MaxLines
    /\ tail' = [pc |-> 1, line |-> l, branch |-> "none", before |-> Some(tracker)]
    /\ UNCHANGED <<tracker, now, display, nlines, last, prev, calls, gui, logfile, loops, fed, timer>>

(* the tail thread runs the next group of statements of parse_line *)
TailStep ==
    /\ tail.pc > 0
    /\ LET l == tail.line
       IN  \/ /\ tail.pc = 1
              /\ LET b == AttackBranch(tracker, l)
                 IN  /\ tracker' = IF b = "player"
                                   THEN PlayerAttackBind(tracker, Val(l.atk), now)
                                   ELSE IF b = "target"
                                   THEN TargetAttack(tracker, Val(l.atk), now)
                                   ELSE tracker
                     /\ tail' = [tail EXCEPT !.pc = 2, !.branch = b]
              /\ UNCHANGED <<nlines, last, prev>>
           \/ /\ tail.pc = 2
              /\ tracker' = IF tail.branch = "player"
                            THEN PlayerAttackCount(tracker, Val(l.atk))
                            ELSE tracker
              /\ tail' = [tail EXCEPT !.pc = 3]
              /\ UNCHANGED <<nlines, last, prev>>
           \/ /\ tail.pc = 3
              /\ tracker' = IF tail.branch = "player"
                            THEN PlayerAttackAC(tracker, Val(l.atk))
                            ELSE tracker
              /\ tail' = [tail EXCEPT !.pc = 4]
              /\ UNCHANGED <<nlines, last, prev>>
           \/ /\ tail.pc = 4
              /\ tracker' = AfterAttack(tracker, l, now)
              /\ tail' = IdleTail
              /\ nlines' = nlines + 1
              /\ last' = [op |-> "parse_line", line |-> l]
              /\ prev' = PrevAfter(Val(tail.before), l, prev)
    /\ UNCHANGED <<now, display, calls, gui, logfile, loops, fed, timer>>

ThreadLines ==
    { Rolled(Az, Ko, "hit", 10, 5, 15),
      Rolled(Az, Ko, "miss", 9, 5, 14),
      Rolled(Ko, Az, "hit", 10, 12, 22),
      SaveLine(Ko, "Will", 4),
      PlainDmg }

InitThreads == InitWith({CfgLock, CfgSub})

NextThreads ==
    \/ \E l \in ThreadLines : TailBegin(l)
    \/ TailStep
    \/ Reset
    \/ RenderStats

SpecThreads == InitThreads /\ [][NextThreads]_vars

(* the statement groups, run without interruption, are parse_line *)
StepsAreParseLine ==
    \A l \in ThreadLines :
        LET b == AttackBranch(tracker, l)
            s1 == IF b = "player"
                  THEN PlayerAttackAC(
                         PlayerAttackCount(
                           PlayerAttackBind(tracker, Val(l.atk), now), Val(l.atk)),
                         Val(l.atk))
                  ELSE IF b = "target" THEN TargetAttack(tracker, Val(l.atk), now)
                  ELSE tracker
        IN  AfterAttack(s1, l, now) = parse_line(tracker, l, now)

(* the states an uninterrupted event leaves or finds: the event applied to  *)
(* the state the call started in, or to that state after a reset()           *)
AppliedWhole(tl, clk) ==
    { parse_line(Val(tl.before), tl.line, clk),
      parse_line(reset(Val(tl.before)), tl.line, clk),
      reset(parse_line(Val(tl.before), tl.line, clk)) }

NotApplied(tl) == { Val(tl.before), reset(Val(tl.before)) }

(* C17 as claimed: no reset() and no snapshot read takes effect between the *)
(* state updates of one parse_line call: when the call returns, the tracker  *)
(* holds the whole event applied to the state the call started in (or to     *)
(* that state reset), and the state _render_stats reads while a call is in   *)
(* progress is one with the event not applied or wholly applied.             *)
C17_EventAtomic ==
    [][/\ (tail.pc # 0 /\ tail'.pc = 0) => tracker' \in AppliedWhole(tail, now)
       /\ (tail.pc # 0 /\ tail' = tail /\ last'.op = "render")
             => tracker \in NotApplied(tail) \cup AppliedWhole(tail, now)]_vars

----------------------------------------------------------------------------
(* SpecTail: the Start/Stop button, the threads running _tail_log, and the  *)
(* game appending to (or truncating) the log file.  Offsets are counted in   *)
(* lines; line number n is the n-th line ever written to the file.           *)

(* the text of every log line written: a player hit on Ko *)
LineOf(n) == Rolled(Az, Ko, "hit", 10, 5, 15)

(* _start_tracking, reached from _toggle_tracking when not running *)
StartTracking ==
    /\ ~gui.running
    /\ \E k \in 1..MaxThreads :
          /\ loops[k].pc = "none"
          /\ \A j \in 1..(k - 1) : loops[j].pc # "none"
          /\ loops' = [loops EXCEPT ![k] = [NoLoop EXCEPT !.pc = "top"]]
    /\ tracker' = NewTracker(CfgLock, now)
    /\ gui' = [running |-> TRUE, file_position |-> Len(logfile.content)]
    /\ display' = None
    /\ last' = [op |-> "start", line |-> NoLine]
    /\ prev' = NoPrev
    /\ UNCHANGED <<now, nlines, calls, tail, logfile, fed, timer>>

(* _stop_tracking, reached from _toggle_tracking when running *)
StopTracking ==
    /\ gui.running
    /\ gui' = [gui EXCEPT !.running = FALSE]
    /\ last' = [op |-> "stop", line |-> NoLine]
    /\ UNCHANGED <<tracker, now, display, nlines, prev, calls, tail, logfile, loops, fed, timer>>

(* the game writes one more line to the log *)
AppendLine ==
    /\ logfile.written < MaxWritten
    /\ logfile' = [content |-> Append(logfile.content, logfile.written + 1),
                   written |-> logfile.written + 1]
    /\ UNCHANGED <<tracker, now, display, nlines, last, prev, calls, tail, gui, loops, fed, timer>>

(* the game truncates the log (it starts the file again) *)
TruncateLog ==
    /\ logfile.content # <<>>
    /\ logfile' = [logfile EXCEPT !.content = <<>>]
    /\ UNCHANGED <<tracker, now, display, nlines, last, prev, calls, tail, gui, loops, fed, timer>>

(* _tail_log whose loop condition does not read self.running *)
LoopStep_ignores_running(k) ==
    LET me == loops[k]
        n == Len(logfile.content)
    IN  \/ /\ me.pc = "top"
           /\ loops' = [loops EXCEPT ![k] = [me EXCEPT !.pc = "sized", !.size = n]]
           /\ UNCHANGED <<tracker, nlines, last, prev, gui, fed>>
        \/ /\ me.pc = "sized"
           /\ IF me.size > gui.file_position
              THEN /\ loops' = [loops EXCEPT ![k] =
                                  [me EXCEPT !.pc = "opened", !.offset = gui.file_position]]
                   /\ UNCHANGED gui
              ELSE /\ loops' = [loops EXCEPT ![k] = [me EXCEPT !.pc = "top"]]
                   /\ gui' = IF me.size < gui.file_position
                             THEN [gui EXCEPT !.file_position = 0]
                             ELSE gui
           /\ UNCHANGED <<tracker, nlines, last, prev, fed>>
        \/ /\ me.pc = "opened"
           /\ loops' = [loops EXCEPT ![k] =
                          [me EXCEPT !.pc = "feed",
                                     !.batch = IF me.offset < n
                                               THEN SubSeq(logfile.content, me.offset + 1, n)
                                               ELSE <<>>]]
           /\ gui' = [gui EXCEPT !.file_position = IF me.offset < n THEN n ELSE me.offset]
           /\ UNCHANGED <<tracker, nlines, last, prev, fed>>
        \/ /\ me.pc = "feed"
           /\ me.batch = <<>>
           /\ loops' = [loops EXCEPT ![k] = [me EXCEPT !.pc = "top"]]
           /\ UNCHANGED <<tracker, nlines, last, prev, gui, fed>>
        \/ /\ me.pc = "feed"
           /\ me.batch # <<>>
           /\ LET l == LineOf(Head(me.batch))
              IN  /\ tracker' = parse_line(tracker, l, now)
                  /\ last' = [op |-> "parse_line", line |-> l]
                  /\ prev' = PrevAfter(tracker, l, prev)
           /\ nlines' = nlines + 1
           /\ fed' = Append(fed, Head(me.batch))
           /\ loops' = [loops EXCEPT ![k] = [me EXCEPT !.batch = Tail(me.batch)]]
           /\ UNCHANGED gui

(* one step of a thread in _tail_log:                                       *)
(*   top     "while self.running" and os.path.getsize                        *)
(*   sized   the comparison with file_position; open and seek, or the        *)
(*           truncation branch, then sleep                                   *)
(*   opened  readlines and "self.file_position = f.tell()"                   *)
(*   feed    the for loop: one parse_line call, or the end of the batch and  *)
(*           sleep                                                           *)
LoopStep(k) ==
    LET me == loops[k]
        n == Len(logfile.content)
    IN  \/ /\ me.pc = "top"
           /\ loops' = [loops EXCEPT ![k] =
                          IF gui.running
                          THEN [me EXCEPT !.pc = "sized", !.size = n]
                          ELSE [me EXCEPT !.pc = "done"]]
           /\ UNCHANGED <<tracker, nlines, last, prev, gui, fed>>
        \/ /\ me.pc = "sized"
           /\ IF me.size > gui.file_position
              THEN /\ loops' = [loops EXCEPT ![k] =
                                  [me EXCEPT !.pc = "opened", !.offset = gui.file_position]]
                   /\ UNCHANGED gui
              ELSE /\ loops' = [loops EXCEPT ![k] = [me EXCEPT !.pc = "top"]]
                   /\ gui' = IF me.size < gui.file_position
                             THEN [gui EXCEPT !.file_position = 0]
                             ELSE gui
           /\ UNCHANGED <<tracker, nlines, last, prev, fed>>
        \/ /\ me.pc = "opened"
           /\ loops' = [loops EXCEPT ![k] =
                          [me EXCEPT !.pc = "feed",
                                     !.batch = IF me.offset < n
                                               THEN SubSeq(logfile.content, me.offset + 1, n)
                                               ELSE <<>>]]
           /\ gui' = [gui EXCEPT !.file_position = IF me.offset < n THEN n ELSE me.offset]
           /\ UNCHANGED <<tracker, nlines, last, prev, fed>>
        \/ /\ me.pc = "feed"
           /\ me.batch = <<>>
           /\ loops' = [loops EXCEPT ![k] = [me EXCEPT !.pc = "top"]]
           /\ UNCHANGED <<tracker, nlines, last, prev, gui, fed>>
        \/ /\ me.pc = "feed"
           /\ me.batch # <<>>
           /\ LET l == LineOf(Head(me.batch))
              IN  /\ tracker' = parse_line(tracker, l, now)
                  /\ last' = [op |-> "parse_line", line |-> l]
                  /\ prev' = PrevAfter(tracker, l, prev)
           /\ nlines' = nlines + 1
           /\ fed' = Append(fed, Head(me.batch))
           /\ loops' = [loops EXCEPT ![k] = [me EXCEPT !.batch = Tail(me.batch)]]
           /\ UNCHANGED gui

TailLoop ==
    /\ \E k \in 1..MaxThreads : LoopStep(k)
    /\ UNCHANGED <<now, display, calls, tail, logfile, timer>>

(* NWNTrackerGUI.__init__: no tracker yet, not running *)
InitTail ==
    /\ tracker = None
    /\ now = 0
    /\ display = None
    /\ nlines = 0
    /\ last = [op |-> "init", line |-> NoLine]
    /\ prev = NoPrev
    /\ probe = None
    /\ stripped = NoStrip
    /\ tail = IdleTail
    /\ gui = NewGui
    /\ logfile = EmptyLog
    /\ loops = [k \in 1..MaxThreads |-> NoLoop]
    /\ fed = <<>>
    /\ timer = IdleTimer

NextTail ==
    \/ StartTracking
    \/ StopTracking
    \/ AppendLine
    \/ TruncateLog
    \/ TailLoop

SpecTail == InitTail /\ [][NextTail]_vars

(* the threads that are inside the loop of _tail_log *)
LiveLoops == {k \in 1..MaxThreads : loops[k].pc \notin {"none", "done"}}

FedOnce == \A i, j \in 1..Len(fed) : i # j => fed[i] # fed[j]

(* C18 as claimed: over any sequence of start/stop toggles and appends, no  *)
(* line is passed to parse_line more than once, and at most one thread is    *)
(* inside the tail loop at any time.                                         *)
C18_NoDuplicateDelivery ==
    /\ FedOnce
    /\ Cardinality(LiveLoops) <= 1

----------------------------------------------------------------------------
(* SpecTailLive: tracking has just been started on an empty log and stays   *)
(* running; one thread runs _tail_log and is scheduled again and again (it   *)
(* polls every 0.5 s); the main thread may run reset() at any time.          *)

(* reset() on the main thread while the tail thread is inside parse_line on *)
(* a player attack, between the test "self.target_ac" and the call           *)
(* self.target_ac.record_hit (lines 336-337): the call raises AttributeError *)
(* on None, the except clause of _tail_log (lines 942-943) ends the batch.   *)
ResetDuringFeed ==
    /\ \E k \in 1..MaxThreads :
          LET me == loops[k]
              l == LineOf(Head(me.batch))
              a == Val(l.atk)
              t1 == PlayerAttackCount(PlayerAttackBind(tracker, a, now), a)
          IN  /\ me.pc = "feed"
              /\ me.batch # <<>>
              /\ AttackBranch(tracker, l) = "player"
              /\ a.total # None
              /\ t1.target_ac # None
              /\ tracker' = reset(t1)
              /\ fed' = Append(fed, Head(me.batch))
              /\ loops' = [loops EXCEPT ![k] = [me EXCEPT !.pc = "top", !.batch = <<>>]]
    /\ nlines' = nlines + 1
    /\ last' = [op |-> "reset", line |-> NoLine]
    /\ prev' = NoPrev
    /\ UNCHANGED <<now, display, calls, tail, gui, logfile, timer>>

(* the state _start_tracking leaves, the log being empty *)
InitTailLive ==
    /\ tracker = NewTracker(CfgLock, 0)
    /\ now = 0
    /\ display = None
    /\ nlines = 0
    /\ last = [op |-> "start", line |-> NoLine]
    /\ prev = NoPrev
    /\ probe = None
    /\ stripped = NoStrip
    /\ tail = IdleTail
    /\ gui = [running |-> TRUE, file_position |-> 0]
    /\ logfile = EmptyLog
    /\ loops = [k \in 1..MaxThreads |-> IF k = 1 THEN [NoLoop EXCEPT !.pc = "top"] ELSE NoLoop]
    /\ fed = <<>>
    /\ timer = IdleTimer

NextTailLive ==
    \/ AppendLine
    \/ TruncateLog
    \/ TailLoop
    \/ Reset
    \/ ResetDuringFeed

SpecTailLive ==
    InitTailLive /\ [][NextTailLive]_vars /\ WF_vars(TailLoop)

InFile(n) == \E i \in 1..Len(logfile.content) : logfile.content[i] = n

Fed(n) == \E i \in 1..Len(fed) : fed[i] = n

FedInOrder == \A i, j \in 1..Len(fed) : i < j => fed[i] < fed[j]

(* C19 as claimed: while tracking is running, lines reach parse_line in     *)
(* file order, and every line appended after tracking started (and staying   *)
(* in the file) is eventually passed to parse_line, also when the file is    *)
(* truncated between polls and when an earlier line of the batch fails.      *)
C19_EveryLineDelivered ==
    /\ []FedInOrder
    /\ \A n \in 1..MaxWritten : (<>[]InFile(n)) => <>Fed(n)

----------------------------------------------------------------------------
(* SpecStrip: _strip_prefix applied repeatedly to a raw line.  A raw line   *)
(* is a sequence of tokens:                                                  *)
(*   "C"  the text "[CHAT WINDOW TEXT]"    "c"  "[chat window text]"         *)
(*   "B"  another bracket token, such as "[Wed Jan 01 12:00:00]"             *)
(*   " "  white space                      "x"  any other text               *)

MaxRawLen == 4
MaxApplied == 2

RawTokens == {"C", "c", "B", " ", "x"}

RawLinesOf(len) == [1..len -> RawTokens]

RawLines == UNION {RawLinesOf(len) : len \in 0..MaxRawLen}

(* \[CHAT WINDOW TEXT\] under re.IGNORECASE *)
IsChatTag(tok) == tok \in {"C", "c"}

(* \[[^\]]+\] : any bracket token with something between the brackets *)
IsBracketToken(tok) == tok \in {"C", "c", "B"}

(* pat_prefix.sub('', line): the pattern is anchored at the start of the    *)
(* string, so at most one occurrence is removed                              *)
pat_prefix_sub(s) ==
    IF s # <<>> /\ IsChatTag(s[1])
    THEN LET r == LStrip(Tail(s))
         IN  IF r # <<>> /\ IsBracketToken(r[1]) THEN LStrip(Tail(r)) ELSE s
    ELSE s

strip_prefix(s) == Strip(pat_prefix_sub(s))

StripPrefix ==
    /\ stripped.applied < MaxApplied
    /\ stripped' = [raw |-> stripped.raw,
                    text |-> strip_prefix(stripped.text),
                    applied |-> stripped.applied + 1,
                    before |-> stripped.text]
    /\ last' = [op |-> "strip_prefix", line |-> NoLine]
    /\ UNCHANGED <<tracker, now, display, nlines, prev, probe, tail, gui, logfile, loops, fed, timer>>

InitStrip ==
    /\ tracker = NewTracker(CfgLock, 0)
    /\ now = 0
    /\ display = None
    /\ nlines = 0
    /\ last = [op |-> "init", line |-> NoLine]
    /\ prev = NoPrev
    /\ probe = None
    /\ \E x \in RawLines : stripped = [raw |-> x, text |-> x, applied |-> 0, before |-> x]
    /\ tail = IdleTail
    /\ gui = NewGui
    /\ logfile = EmptyLog
    /\ loops = [k \in 1..MaxThreads |-> NoLoop]
    /\ fed = <<>>
    /\ timer = IdleTimer

NextStrip == StripPrefix

SpecStrip == InitStrip /\ [][NextStrip]_vars

(* C20 as claimed: _strip_prefix(_strip_prefix(x)) = _strip_prefix(x) for   *)
(* every raw line x, also one that starts with several bracket tokens (and   *)
(* _strip_prefix is defined on every raw line).                              *)
C20_StripIdempotent ==
    stripped.applied = 2 => stripped.text = stripped.before

----------------------------------------------------------------------------
(* SpecRefresh: AttackBonus.refresh() called directly on the tracker's      *)
(* attack_bonus, between update() calls (player attack lines) and while the  *)
(* clock advances.  probe records, for a refresh() call: the max_observed it *)
(* left, the max_observed the preceding refresh() had left when the call     *)
(* before this one was a refresh() too, and how many observations it pruned. *)

Refresh ==
    LET ab == tracker.attack_bonus
        ab2 == ab_refresh(ab, now)
    IN  /\ tracker' = [tracker EXCEPT !.attack_bonus = ab2]
        /\ probe' = Some([after |-> ab2.max_observed,
                          before |-> IF last.op = "refresh"
                                     THEN Some(ab.max_observed) ELSE None,
                          pruned |-> Len(ab.recent_attacks) - Len(ab2.recent_attacks)])
        /\ last' = [op |-> "refresh", line |-> NoLine]
        /\ UNCHANGED <<now, display, nlines, prev, stripped, tail, gui, logfile, loops, fed, timer>>

InitRefresh == InitWith({CfgLock})

NextRefresh ==
    \/ \E l \in BonusLines : ParseLine(l)
    \/ Refresh
    \/ TickLong

SpecRefresh == InitRefresh /\ [][NextRefresh]_vars

MaxObserved(t) == t.attack_bonus.max_observed

(* C21 as claimed: a refresh() call that follows a refresh() call with no    *)
(* update() in between leaves max_observed as the first call left it.        *)
C21_RefreshIdempotent ==
    [][(last.op = "refresh" /\ last'.op = "refresh")
          => MaxObserved(tracker') = MaxObserved(tracker)]_vars

(* C21 amended: a refresh() call that follows a refresh() call with no       *)
(* update() in between leaves max_observed as the first call left it when no *)
(* observation has left the window between the two calls (the second call    *)
(* prunes nothing), as is the case when both calls read the same clock.      *)
C21_RefreshIdempotentInWindow ==
    [][(/\ last.op = "refresh"
        /\ last'.op = "refresh"
        /\ tracker'.attack_bonus.recent_attacks = tracker.attack_bonus.recent_attacks)
          => MaxObserved(tracker') = MaxObserved(tracker)]_vars

(* C21 witness: two observations (8 then 5) in the window, refresh() called  *)
(* twice in succession at time 20; the second call pruned nothing and left   *)
(* the maximum 8 of the first.                                               *)
C21_Witness ==
    /\ last.op = "refresh"
    /\ now = 20
    /\ Len(tracker.attack_bonus.recent_attacks) = 2
    /\ Val(probe).before = Some(8)
    /\ Val(probe).pruned = 0
    /\ Val(probe).after = 8

----------------------------------------------------------------------------
(* Claims on the kill line and encounter timing, under Spec *)

(* C22 as claimed: in every state reachable by parse_line and reset() calls, *)
(* in lock mode and in filter mode, target_dead implies that an opponent is  *)
(* bound (target_name non-empty): the death flag is set only by a kill line  *)
(* whose killer is the player and whose victim matches the bound opponent.   *)
C22_DeadOnlyWhenBound ==
    tracker.target_dead => tracker.target_name # <<>>

----------------------------------------------------------------------------
(* SpecTiming: one line of every kind, from either side, while the clock    *)
(* advances                                                                  *)

TimingLines ==
    { Rolled(Az, Ko, "hit", 10, 5, 15),
      Rolled(Ko, Az, "miss", 4, 12, 16),
      ConcealMissLine(Az, Ko, 50),
      SaveLine(Ko, "Will", 4),
      DmgLine(Az, Ko, 9, None),
      DmgLine(Ko, Az, 7, None),
      PotionLine(Ko),
      PotionLine(Az),
      HealLine(Ko),
      KillLine(Az, KoUpperDot),
      Rolled(Az, Gob, "hit", 8, 5, 13),
      NoLine }

InitTiming == InitWith({CfgLock, CfgSub})

NextTiming ==
    \/ \E l \in TimingLines : ParseLine(l)
    \/ Reset
    \/ Tick

SpecTiming == InitTiming /\ [][NextTiming]_vars

(* the line takes a branch of parse_line that calls _update_encounter_time  *)
TouchesTiming(t, l) ==
    \/ /\ l.atk # None
       /\ \/ is_player(t, Val(l.atk).attacker) /\ matches_target(t, Val(l.atk).target)
          \/ matches_target(t, Val(l.atk).attacker) /\ is_player(t, Val(l.atk).target)
    \/ /\ l.atk = None
       /\ l.cmiss # None
       /\ is_player(t, Val(l.cmiss).attacker)
       /\ matches_target(t, Val(l.cmiss).target)
    \/ l.save # None /\ matches_target(t, Val(l.save).target)
    \/ /\ l.dmg # None
       /\ \/ is_player(t, Val(l.dmg).attacker) /\ matches_target(t, Val(l.dmg).target)
          \/ matches_target(t, Val(l.dmg).attacker) /\ is_player(t, Val(l.dmg).target)
    \/ /\ l.potion # None
       /\ ~is_player(t, Val(l.potion).user)
       /\ matches_target(t, Val(l.potion).user)
    \/ l.heal # None /\ matches_target(t, Val(l.heal).caster)

(* the line is a potion of the player, or a kill of the opponent by the player *)
PlayerPotionOrKill(t, l) ==
    \/ l.potion # None /\ is_player(t, Val(l.potion).user)
    \/ KillMatches(t, l)

(* the line is matched by some branch of parse_line *)
MatchedLine(t, l) == TouchesTiming(t, l) \/ PlayerPotionOrKill(t, l)

TimingTouched(t, u, clk) ==
    /\ u.encounter_start = IF t.encounter_start = None THEN Some(clk) ELSE t.encounter_start
    /\ u.encounter_last = Some(clk)

TimingKept(t, u) ==
    /\ u.encounter_start = t.encounter_start
    /\ u.encounter_last = t.encounter_last

TimingConsistent(t) ==
    \/ t.encounter_start = None /\ t.encounter_last = None
    \/ /\ t.encounter_start # None
       /\ t.encounter_last # None
       /\ Val(t.encounter_start) <= Val(t.encounter_last)

(* C23 as claimed: the first matched line of a session sets encounter_start, *)
(* no later line changes it until reset(), every matched line sets           *)
(* encounter_last to the time of the call, an unmatched line changes neither, *)
(* and in every state both are unset or both set with start <= last.         *)
C23_TimingEveryMatch ==
    /\ [][(nlines' = nlines + 1) =>
            IF MatchedLine(tracker, last'.line)
            THEN TimingTouched(tracker, tracker', now)
            ELSE TimingKept(tracker, tracker')]_vars
    /\ []TimingConsistent(tracker)

(* C23 amended: the same for the lines whose branch touches the timing: an   *)
(* attack or damage line between the player and the opponent (either         *)
(* direction), a concealment-only miss, a save, a potion or an undead        *)
(* self-heal of the opponent.  A potion line of the player and a kill line   *)
(* change neither timestamp, like an unmatched line.                         *)
C23_TimingOnTouch ==
    /\ [][(nlines' = nlines + 1) =>
            IF TouchesTiming(tracker, last'.line)
            THEN TimingTouched(tracker, tracker', now)
            ELSE TimingKept(tracker, tracker')]_vars
    /\ []TimingConsistent(tracker)

(* C23 witness: start set at 0, a later matched line at 10 moved             *)
(* encounter_last only, and the kill line at 20 left both where they were.   *)
C23_Witness ==
    /\ last.op = "parse_line"
    /\ last.line = KillLine(Az, KoUpperDot)
    /\ tracker.target_name = Ko
    /\ tracker.encounter_start = Some(0)
    /\ tracker.encounter_last = Some(10)
    /\ tracker.kill_time = Some(20)

----------------------------------------------------------------------------
(* SpecTaken: damage lines of the opponent on the player, with and without  *)
(* a breakdown, next to damage lines of the player and of a third party      *)

KorganDmg == DmgLine(Ko, Az, 42, Some(<< <<42, "Physical">> >>))

TakenLines ==
    { KorganDmg,
      DmgLine(Ko, Az, 8, Some(<< <<8, "Physical">>, <<0, "cold">> >>)),
      DmgLine(Ko, Az, 5, Some(<< <<3, "fire">>, <<2, "FIRE">> >>)),
      DmgLine(Ko, Az, 3, None),
      DmgLine(Gob, Az, 4, Some(<< <<4, "Cold">> >>)),
      PlainDmg, SingleDmg,
      Rolled(Az, Ko, "hit", 10, 5, 15) }

InitTaken == InitWith({CfgLock, CfgSub})

NextTaken ==
    \/ \E l \in TakenLines : ParseLine(l)
    \/ Reset

SpecTaken == InitTaken /\ [][NextTaken]_vars

(* the line carries damage of the tracked opponent on the player *)
OpponentDamage(t, l) ==
    /\ l.dmg # None
    /\ matches_target(t, Val(l.dmg).attacker)
    /\ is_player(t, Val(l.dmg).target)

ListOf(d, k) == IF k \in DOMAIN d THEN d[k] ELSE <<>>

(* the amounts of the components of a breakdown whose type is keyed k, in order *)
ComponentsOf(d, k) ==
    IF d.breakdown = None THEN <<>>
    ELSE LET of_k == SelectSeq(Val(d.breakdown), LAMBDA c : Capitalised(c[2]) = k)
         IN  [i \in 1..Len(of_k) |-> of_k[i][1]]

(* C24: a damage line of the tracked opponent on the player appends its      *)
(* amount once to damage_taken, appends every component of its breakdown,    *)
(* zero amounts included, to the list of that type in damage_taken_by_type   *)
(* (no other list changes or appears), and changes no damage-dealt ledger.   *)
C24_DamageTaken ==
    [][(nlines' = nlines + 1 /\ OpponentDamage(tracker, last'.line)) =>
        LET d == Val(last'.line.dmg)
            old == tracker.damage_taken_by_type
            new == tracker'.damage_taken_by_type
        IN  /\ tracker'.damage_taken = Append(tracker.damage_taken, d.amount)
            /\ \A k \in {"Fire", "Cold", "Physical"} \cup DOMAIN old \cup DOMAIN new :
                  /\ ListOf(new, k) = ListOf(old, k) \o ComponentsOf(d, k)
                  /\ k \in DOMAIN new <=> (k \in DOMAIN old \/ ComponentsOf(d, k) # <<>>)
            /\ PlainUnchanged(tracker, tracker')
            /\ BuffUnchanged(tracker, tracker')
            /\ ReflectUnchanged(tracker, tracker')]_vars

(* C24 witness: with opponent "Ko" bound by a first damage line (8 Physical, *)
(* 0 cold), the line "Ko damages Az: 42 (42 Physical)" leaves damage taken   *)
(* 8 and 42, Physical = [8, 42] and Cold = [0].                              *)
C24_Witness ==
    /\ last.op = "parse_line"
    /\ last.line = KorganDmg
    /\ tracker.target_name = Ko
    /\ tracker.damage_taken = <<8, 42>>
    /\ tracker.damage_taken_by_type = ("Physical" :> <<8, 42>>) @@ ("Cold" :> <<0>>)
    /\ tracker.damage_dealt = 0

----------------------------------------------------------------------------
(* SpecTargetAB: attack lines of the opponent on the player, of every        *)
(* outcome, with and without roll breakdown                                  *)

OpponentAttackLines ==
    { Rolled(Ko, Az, "hit", 10, 12, 22),
      Rolled(Ko, Az, "critical hit", 18, 9, 27),
      Rolled(Ko, Az, "miss", 4, 14, 18),
      Bare(Ko, Az, "miss"),
      Rolled(Gob, Az, "hit", 10, 16, 26),
      Rolled(Az, Ko, "hit", 10, 5, 15) }

InitTargetAB == InitWith({CfgLock, CfgSub})

NextTargetAB ==
    \/ \E l \in OpponentAttackLines : ParseLine(l)
    \/ Reset

SpecTargetAB == InitTargetAB /\ [][NextTargetAB]_vars

(* the line is an attack of the tracked opponent on the player that carries *)
(* a roll breakdown                                                          *)
OpponentAttackWithRoll(t, l) ==
    /\ l.atk # None
    /\ matches_target(t, Val(l.atk).attacker)
    /\ is_player(t, Val(l.atk).target)
    /\ Val(l.atk).bonus # None

(* C25 as claimed: target_ab is the maximum bonus over the attack lines of   *)
(* the tracked opponent on the player that carried a roll breakdown in the   *)
(* current session, whatever their outcome, and unknown if there was none:   *)
(* each such line raises it to its bonus when that is larger, no other line  *)
(* changes it, and reset() makes it unknown.                                 *)
C25_TargetABMax ==
    /\ tracker.target_ab = None
    /\ [][/\ (nlines' = nlines + 1) =>
               LET l == last'.line
                   b == Val(l.atk).bonus
               IN  tracker'.target_ab =
                     IF OpponentAttackWithRoll(tracker, l)
                     THEN (IF tracker.target_ab = None THEN b
                           ELSE Some(Max2(Val(tracker.target_ab), Val(b))))
                     ELSE tracker.target_ab
          /\ (last'.op = "reset") => tracker'.target_ab = None]_vars

----------------------------------------------------------------------------
(* SpecTotal: parse_line on lines given as text.  The numeric groups are     *)
(* digit strings (the patterns take \d+ of any length) and parse_line passes *)
(* them to int(), which raises ValueError for a string of more than          *)
(* int_max_str_digits digits (leading zeros included).  The groups converted *)
(* as soon as their pattern matches are conceal, roll, bonus and total of an *)
(* attack line, conceal of a concealment-only miss, bonus of a save line and *)
(* amount of a damage line; the amounts of the breakdown's components are    *)
(* converted inside the two damage branches, after _set_target and           *)
(* _update_encounter_time.                                                   *)

(* sys.int_info.default_max_str_digits of the interpreter *)
int_max_str_digits == 4300

(* a line as text: the groups captured from it (their values when the        *)
(* conversion succeeds), the number of digits of the longest digit string    *)
(* among the groups converted on a match, and the position in the breakdown  *)
(* of the first component whose digit string is over the limit (0: none)     *)
TextLine(groups, digits, long_component) ==
    [groups |-> groups, digits |-> digits, long_component |-> long_component]

IntRaises(digits) == digits > int_max_str_digits

(* parse_line on a text line: the state it leaves and whether it raised *)
parse_text(t, x, clk) ==
    LET l == x.groups
        over == IntRaises(x.digits)
        s1 == AttackStage(t, l, clk)
        s2 == ConcealMissStage(s1, l, clk)
        s3 == SaveStage(s2, l, clk)
        d == Val(l.dmg)
        dealt == is_player(s3, d.attacker) /\ matches_target(s3, d.target)
        taken == ~dealt /\ matches_target(s3, d.attacker) /\ is_player(s3, d.target)
        long == l.dmg # None /\ d.breakdown # None /\ x.long_component > 0
    IN  IF l.atk # None /\ over THEN [state |-> t, raised |-> TRUE]
        ELSE IF l.atk = None /\ l.cmiss # None /\ over THEN [state |-> s1, raised |-> TRUE]
        ELSE IF l.save # None /\ over THEN [state |-> s2, raised |-> TRUE]
        ELSE IF l.dmg # None /\ over THEN [state |-> s3, raised |-> TRUE]
        ELSE IF long /\ dealt
        THEN [state |-> update_encounter_time(set_target(s3, d.target), clk),
              raised |-> TRUE]
        ELSE IF long /\ taken
        THEN [state |-> [update_encounter_time(set_target(s3, d.attacker), clk)
                            EXCEPT !.damage_taken = Append(@, d.amount),
                                   !.damage_taken_by_type =
                                       TakenByType(@, SubSeq(Val(d.breakdown), 1,
                                                             x.long_component - 1))],
              raised |-> TRUE]
        ELSE [state |-> parse_line(t, l, clk), raised |-> FALSE]

(* a call tracker.parse_line(text); probe records whether it raised *)
ParseText(x) ==
    /\ nlines < MaxLines
    /\ LET r == parse_text(tracker, x, now)
       IN  /\ tracker' = r.state
           /\ probe' = Some([raised |-> r.raised])
           /\ prev' = IF r.raised THEN prev ELSE PrevAfter(tracker, x.groups, prev)
    /\ nlines' = nlines + 1
    /\ last' = [op |-> "parse_line", line |-> x.groups]
    /\ UNCHANGED <<now, display, stripped, tail, gui, logfile, loops, fed, timer>>

CfgNoPlayer == [player_name |-> <<>>, target_filter |-> <<>>, exact_match |-> FALSE, auto_track |-> TRUE]

TwoTypeDmg == DmgLine(Ko, Az, 8, Some(<< <<8, "Physical">>, <<0, "cold">> >>))

(* lines with a group that is converted on a match *)
NumericLines ==
    { Rolled(Az, Ko, "hit", 10, 5, 15),
      Rolled(Gob, Kob, "miss", 3, 2, 5),
      PendingLine,
      ConcealMissLine(Az, Ko, 50),
      SaveLine(Ko, "Will", 4),
      SingleDmg,
      TwoTypeDmg }

(* lines without one, and the line no pattern matches *)
PlainLines ==
    { Bare(Az, Ko, "parried"), PotionLine(Az), HealLine(Ko), KillLine(Az, KoUpperDot), NoLine }

DigitCounts == {2, int_max_str_digits, int_max_str_digits + 1}

TextLines ==
    {TextLine(l, n, 0) : l \in NumericLines, n \in DigitCounts}
      \cup {TextLine(l, 0, 0) : l \in PlainLines}
      \cup {TextLine(SingleDmg, 2, 1), TextLine(TwoTypeDmg, 2, 1), TextLine(TwoTypeDmg, 2, 2)}

InitTotal == InitWith({CfgLock, CfgSub, CfgNoFilter, CfgNoPlayer})

NextTotal ==
    \/ \E x \in TextLines : ParseText(x)
    \/ Reset

SpecTotal == InitTotal /\ [][NextTotal]_vars

(* C26 as claimed: for every line and every configuration (an empty player  *)
(* name and an empty filter included) a parse_line call returns without      *)
(* raising, and a line that matches no pattern leaves the whole session      *)
(* state unchanged.                                                          *)
C26_ParseLineTotal ==
    /\ []((last.op = "parse_line" /\ probe # None) => ~Val(probe).raised)
    /\ [][(nlines' = nlines + 1 /\ last'.line = NoLine) => tracker' = tracker]_vars

----------------------------------------------------------------------------
(* SpecMiss: player misses of every kind: with a natural 1, with and without *)
(* roll breakdown, behind concealment, and on a name that is only            *)
(* punctuation                                                               *)

Nat1Miss == Rolled(Az, Ko, "miss", 1, 19, 20)

MissLines ==
    { Rolled(Az, Ko, "miss", 9, 5, 14),
      Nat1Miss,
      Rolled(Az, Ko, "resisted", 12, 5, 17),
      Rolled(Az, Ko, "parried", 11, 5, 16),
      Bare(Az, Ko, "miss"),
      AtkLine("conceal", Az, Ko, "miss", Some(1), Some(5), Some(6), Some(20)),
      Rolled(Az, Ko, "hit", 10, 5, 15),
      Rolled(Az, Dot, "miss", 12, 5, 17) }

InitMiss == InitWith({CfgLock, CfgSub})

NextMiss ==
    \/ \E l \in MissLines : ParseLine(l)
    \/ Reset

SpecMiss == InitMiss /\ [][NextMiss]_vars

(* the line carries a resolved miss of the player on the opponent *)
ResolvedPlayerMiss(t, l) ==
    /\ ResolvedPlayerAttack(t, l)
    /\ Val(l.atk).outcome \in {"miss", "parried", "resisted"}

(* C27 as claimed: a resolved player miss whose natural roll is 1 increments *)
(* misses and leaves max_miss unchanged, whatever its total; every other     *)
(* resolved player miss with a roll breakdown increments misses and raises   *)
(* max_miss to its total when that total is larger (or max_miss is unknown). *)
C27_Nat1Excluded ==
    [][(nlines' = nlines + 1 /\ ResolvedPlayerMiss(tracker, last'.line)) =>
        LET a == Val(last'.line.atk)
            mm == MaxMissOf(tracker)
        IN  /\ tracker'.misses = tracker.misses + 1
            /\ a.roll = Some(1) => MaxMissOf(tracker') = mm
            /\ (a.roll # Some(1) /\ a.total # None) =>
                  MaxMissOf(tracker') =
                     IF mm = None THEN a.total
                     ELSE Some(Max2(Val(mm), Val(a.total)))]_vars

----------------------------------------------------------------------------
(* SpecLock: lock mode; lines of every kind that name a third party ("Gob",  *)
(* or "Kob", which contains the opponent's name), next to lines that lock    *)
(* and concern the opponent "Ko"                                             *)

ThirdPartyDmg == DmgLine(Gob, Az, 4, Some(<< <<4, "Cold">> >>))

LockLines ==
    { Rolled(Az, Ko, "hit", 10, 5, 15),
      Rolled(Ko, Az, "hit", 10, 12, 22),
      Rolled(Az, Gob, "hit", 8, 7, 13),
      Rolled(Kob, Az, "critical hit", 19, 14, 33),
      ConcealMissLine(Az, Gob, 50),
      SaveLine(Kob, "Will", 4),
      DmgLine(Az, Kob, 5, Some(<< <<5, "fire">> >>)),
      ThirdPartyDmg,
      PotionLine(Gob),
      HealLine(Kob),
      KillLine(Az, Gob),
      KillLine(Gob, KoUpperDot) }

InitLock == InitWith({CfgLock})

NextLock ==
    \/ \E l \in LockLines : ParseLine(l)
    \/ Reset

SpecLock == InitLock /\ [][NextLock]_vars

(* the names a line gives to its actors *)
Actors(l) ==
    (IF l.atk # None THEN {Val(l.atk).attacker, Val(l.atk).target} ELSE {})
      \cup (IF l.cmiss # None THEN {Val(l.cmiss).attacker, Val(l.cmiss).target} ELSE {})
      \cup (IF l.save # None THEN {Val(l.save).target} ELSE {})
      \cup (IF l.dmg # None THEN {Val(l.dmg).attacker, Val(l.dmg).target} ELSE {})
      \cup (IF l.potion # None THEN {Val(l.potion).user} ELSE {})
      \cup (IF l.heal # None THEN {Val(l.heal).caster} ELSE {})
      \cup (IF l.kill # None THEN {Val(l.kill).killer, Val(l.kill).target} ELSE {})

NonPlayerActors(t, l) == {n \in Actors(l) : ~is_player(t, n)}

(* the line has a non-player actor and none of them is the locked opponent *)
ThirdPartyLine(t, l) ==
    /\ NonPlayerActors(t, l) # {}
    /\ \A n \in NonPlayerActors(t, l) :
          Lower(RStripPunct(Strip(n))) # Lower(t.target_name)

(* C28: in lock mode with an opponent locked, a line (attack, concealment    *)
(* miss, save, damage, potion, undead self-heal or kill) whose non-player    *)
(* actor is not the locked opponent leaves the whole session state           *)
(* unchanged.                                                                *)
C28_LockedIgnoresOthers ==
    [][(/\ nlines' = nlines + 1
        /\ tracker.auto_track
        /\ tracker.target_name # <<>>
        /\ ThirdPartyLine(tracker, last'.line))
          => tracker' = tracker]_vars

(* C28 witness: "Ko" locked by the player's hit; of the two lines after it,  *)
(* the last one is damage by "Gob" on the player, and the session is as the  *)
(* first line left it.                                                       *)
C28_Witness ==
    /\ last.op = "parse_line"
    /\ last.line = ThirdPartyDmg
    /\ nlines = 3
    /\ tracker.auto_track
    /\ tracker.target_name = Ko
    /\ tracker.hits = 1
    /\ tracker.target_ab = None
    /\ tracker.damage_taken = <<>>
    /\ ~tracker.target_dead
    /\ tracker.target_pots = 0

----------------------------------------------------------------------------
(* SpecRace: AttackBonus.update() running on the tail thread (called by      *)
(* parse_line for a player attack with a bonus) while the display timer runs *)
(* AttackBonus.refresh() on the main thread (_render_stats), on the same     *)
(* object and with no lock.  Each method is taken statement by statement.    *)
(* _prune_old builds the filtered list first and assigns it to               *)
(* self.recent_attacks afterwards; append() changes the list that            *)
(* self.recent_attacks names at that moment.                                 *)

(* the tail thread is not inside update(); done: an update() has completed, *)
(* with this bonus and timestamp                                             *)
NoUpdate == [pc |-> "idle", bonus |-> 0, stamp |-> 0, filtered |-> <<>>, done |-> FALSE]

ObservedBonuses == {5, 8}

RecentAttacks == tracker.attack_bonus.recent_attacks

(* update(): now = datetime.now(); self.current = bonus *)
UpdateBegin(b) ==
    /\ tail.pc = "idle"
    /\ nlines < MaxLines
    /\ tail' = [pc |-> "append", bonus |-> b, stamp |-> now, filtered |-> <<>>,
                done |-> FALSE]
    /\ tracker' = [tracker EXCEPT !.attack_bonus.current = b]
    /\ nlines' = nlines + 1
    /\ last' = [op |-> "update", line |-> NoLine]
    /\ UNCHANGED <<now, display, prev, calls, gui, logfile, loops, fed, timer>>

(* update(): append; _prune_old (build, then assign); maximum and last_updated *)
UpdateStep ==
    /\ tail.pc # "idle"
    /\ \/ /\ tail.pc = "append"
          /\ tracker' = [tracker EXCEPT !.attack_bonus.recent_attacks =
                                           Append(@, <<tail.stamp, tail.bonus>>)]
          /\ tail' = [tail EXCEPT !.pc = "prune"]
       \/ /\ tail.pc = "prune"
          /\ tail' = [tail EXCEPT !.pc = "assign",
                                  !.filtered = SelectPairs(RecentAttacks,
                                                           now - window_seconds)]
          /\ UNCHANGED tracker
       \/ /\ tail.pc = "assign"
          /\ tracker' = [tracker EXCEPT !.attack_bonus.recent_attacks = tail.filtered]
          /\ tail' = [tail EXCEPT !.pc = "max", !.filtered = <<>>]
       \/ /\ tail.pc = "max"
          /\ tracker' = [tracker EXCEPT
                            !.attack_bonus.max_observed =
                                IF RecentAttacks # <<>>
                                THEN SeqMax(Bonuses(RecentAttacks))
                                ELSE tail.bonus,
                            !.attack_bonus.last_updated = tail.stamp]
          /\ tail' = [tail EXCEPT !.pc = "idle", !.done = TRUE]
    /\ UNCHANGED <<now, display, nlines, last, prev, calls, gui, logfile, loops, fed, timer>>

(* refresh(): _prune_old builds the filtered list *)
RefreshBegin ==
    /\ timer.pc = "idle"
    /\ timer' = [pc |-> "assign",
                 filtered |-> SelectPairs(RecentAttacks, now - window_seconds)]
    /\ last' = [op |-> "refresh", line |-> NoLine]
    /\ UNCHANGED <<tracker, now, display, nlines, prev, calls, tail, gui, logfile, loops, fed>>

(* refresh(): _prune_old assigns the list; then the maximum, if any is left *)
RefreshStep ==
    /\ timer.pc # "idle"
    /\ \/ /\ timer.pc = "assign"
          /\ tracker' = [tracker EXCEPT !.attack_bonus.recent_attacks = timer.filtered]
          /\ timer' = [pc |-> "max", filtered |-> <<>>]
       \/ /\ timer.pc = "max"
          /\ tracker' = [tracker EXCEPT
                            !.attack_bonus.max_observed =
                                IF RecentAttacks # <<>>
                                THEN SeqMax(Bonuses(RecentAttacks))
                                ELSE @]
          /\ timer' = IdleTimer
    /\ UNCHANGED <<now, display, nlines, last, prev, calls, tail, gui, logfile, loops, fed>>

InitRace ==
    /\ now = 0
    /\ tracker = NewTracker(CfgLock, 0)
    /\ display = None
    /\ nlines = 0
    /\ last = [op |-> "init", line |-> NoLine]
    /\ prev = NoPrev
    /\ probe = None
    /\ stripped = NoStrip
    /\ tail = NoUpdate
    /\ gui = NewGui
    /\ logfile = EmptyLog
    /\ loops = [k \in 1..MaxThreads |-> NoLoop]
    /\ fed = <<>>
    /\ timer = IdleTimer

NextRace ==
    \/ \E b \in ObservedBonuses : UpdateBegin(b)
    \/ UpdateStep
    \/ RefreshBegin
    \/ RefreshStep
    \/ TickLong

SpecRace == InitRace /\ [][NextRace]_vars

(* both calls have completed and the last update()'s observation is still   *)
(* inside the window                                                         *)
BothCompleted ==
    /\ tail.pc = "idle"
    /\ tail.done
    /\ timer.pc = "idle"
    /\ tail.stamp > now - window_seconds

(* C29 as claimed: once update() and refresh() have both completed, however  *)
(* their statements interleaved, the observation update() recorded is in     *)
(* recent_attacks while it is inside the window, and max_observed is at      *)
(* least its bonus.                                                          *)
C29_ObservationKept ==
    BothCompleted =>
        /\ \E i \in 1..Len(RecentAttacks) : RecentAttacks[i] = <<tail.stamp, tail.bonus>>
        /\ tracker.attack_bonus.max_observed >= tail.bonus

----------------------------------------------------------------------------
(* SpecHandoff: tracking started in lock mode (empty target field).  The    *)
(* tail thread calls parse_line; the display timer runs _update_display on   *)
(* the main thread: _render_stats, and, when an opponent is locked, the lock *)
(* hand-off, which writes auto_track, exact_match and target_filter of the   *)
(* tracker one after the other with no lock, so a parse_line call can run    *)
(* between two of the writes.  The target field is empty exactly while       *)
(* auto_track is true (set with it by _start_tracking, the hand-off and      *)
(* _new_target), so the test "not self.target_var.get()" adds nothing to     *)
(* "self.tracker.auto_track".                                                *)

HandoffDue == tracker.auto_track /\ tracker.target_name # <<>>

(* _update_display up to and including "self.tracker.auto_track = False" *)
UpdateDisplay ==
    /\ timer.pc = "idle"
    /\ tracker' = [tracker EXCEPT !.attack_bonus = ab_refresh(@, now),
                                  !.auto_track = IF HandoffDue THEN FALSE ELSE @]
    /\ display' = IF tracker.target_name # <<>> /\ tracker.target_ac # None
                  THEN Some(get_ac_estimate(Val(tracker.target_ac)))
                  ELSE None
    /\ timer' = IF HandoffDue THEN [pc |-> "exact", filtered |-> <<>>] ELSE timer
    /\ last' = [op |-> "render", line |-> NoLine]
    /\ UNCHANGED <<now, nlines, prev, calls, tail, gui, logfile, loops, fed>>

(* "self.tracker.exact_match = True", then                                   *)
(* "self.tracker.target_filter = self.tracker.target_name.lower()"           *)
HandoffStep ==
    /\ timer.pc \in {"exact", "filter"}
    /\ \/ /\ timer.pc = "exact"
          /\ tracker' = [tracker EXCEPT !.exact_match = TRUE]
          /\ timer' = [timer EXCEPT !.pc = "filter"]
       \/ /\ timer.pc = "filter"
          /\ tracker' = [tracker EXCEPT !.target_filter = Lower(tracker.target_name)]
          /\ timer' = IdleTimer
    /\ last' = [op |-> "handoff", line |-> NoLine]
    /\ UNCHANGED <<now, display, nlines, prev, calls, tail, gui, logfile, loops, fed>>

(* _new_target (button, main thread): reset(), lock mode again, _render_stats *)
NewTarget ==
    /\ timer.pc = "idle"
    /\ tracker' = [reset(tracker) EXCEPT !.auto_track = TRUE,
                                         !.attack_bonus = ab_refresh(@, now)]
    /\ display' = None
    /\ last' = [op |-> "new_target", line |-> NoLine]
    /\ prev' = NoPrev
    /\ UNCHANGED <<now, nlines, aux>>

HandoffLines ==
    { Rolled(Az, Ko, "hit", 10, 5, 15),
      Rolled(Ko, Az, "hit", 10, 12, 22),
      DmgLine(Az, Ko, 9, None),
      KillLine(Az, KoUpperDot),
      Rolled(Az, Gob, "hit", 8, 5, 13) }

InitHandoff == InitWith({CfgLock})

NextHandoff ==
    \/ \E l \in HandoffLines : ParseLine(l)
    \/ UpdateDisplay
    \/ HandoffStep
    \/ NewTarget

SpecHandoff == InitHandoff /\ [][NextHandoff]_vars

(* the tracker as it was in lock mode *)
LockedView(t) == [t EXCEPT !.auto_track = TRUE]

(* the line names the locked opponent *)
NamesLocked(t, l) ==
    \E n \in Actors(l) : Lower(RStripPunct(Strip(n))) = Lower(t.target_name)

(* C30 as claimed: a line naming the locked opponent that parse_line         *)
(* processes while the hand-off is between two of its writes has the effect  *)
(* it has in lock mode (it is matched and applied); and once the hand-off is *)
(* complete _matches_target gives, for every name, the result it gave in     *)
(* lock mode with that opponent locked.                                      *)
C30_HandoffKeepsMatching ==
    /\ [][(/\ nlines' = nlines + 1
           /\ timer.pc # "idle"
           /\ NamesLocked(tracker, last'.line))
             => tracker' = [parse_line(LockedView(tracker), last'.line, now)
                               EXCEPT !.auto_track = tracker.auto_track]]_vars
    /\ []((/\ timer.pc = "idle"
           /\ ~tracker.auto_track
           /\ tracker.target_name # <<>>)
             => \A n \in MatchNames :
                   matches_target(tracker, n) <=> matches_target(LockedView(tracker), n))

----------------------------------------------------------------------------
(* Damage-dealt ledgers (parse_line lines 413-430, reset lines 482-488) *)

RECURSIVE SeqSum(_)
SeqSum(s) == IF s = <<>> THEN 0 ELSE s[1] + SeqSum(Tail(s))

RECURSIVE DictSum(_)
DictSum(d) ==
    IF DOMAIN d = {} THEN 0
    ELSE LET k == CHOOSE x \in DOMAIN d : TRUE
         IN  d[k] + DictSum([x \in DOMAIN d \ {k} |-> d[x]])

(* one component whose own amount differs from the line's amount *)
UnequalDmg == DmgLine(Az, Ko, 9, Some(<< <<5, "fire">> >>))

LedgerLines ==
    { Rolled(Az, Ko, "hit", 10, 5, 15),
      Rolled(Az, Ko, "critical hit", 19, 5, 24),
      Rolled(Ko, Az, "hit", 10, 12, 22),
      PlainDmg, SingleDmg, UnequalDmg, SingleWithZeroDmg, MultiDmg, ZeroDmg,
      DmgLine(Az, Ko, 4, Some(<< <<4, "Cold">> >>)),
      TakenDmg }

InitLedger == InitWith({CfgLock, CfgSub})

NextLedger ==
    \/ \E l \in LedgerLines : ParseLine(l)
    \/ Reset

SpecLedger == InitLedger /\ [][NextLedger]_vars

(* C31: in every state reachable by sequential parse_line and reset() calls  *)
(* weapon_buff_damage_total is the sum of the values of                      *)
(* weapon_buff_damage_by_type, shield_damage_total is the sum of the values  *)
(* of shield_damage_by_type, and damage_dealt is the sum of                  *)
(* damage_dealt_crits plus the sum of damage_dealt_normal.                   *)
C31_LedgersConsistent ==
    /\ tracker.weapon_buff_damage_total = DictSum(tracker.weapon_buff_damage_by_type)
    /\ tracker.shield_damage_total = DictSum(tracker.shield_damage_by_type)
    /\ tracker.damage_dealt =
           SeqSum(tracker.damage_dealt_crits) + SeqSum(tracker.damage_dealt_normal)

(* a critical hit, its damage, then a single-type line of amount 9 whose     *)
(* component reads 5: the buff ledger holds 9 under Fire, the crit list 9    *)
C31_Witness ==
    /\ last.op = "parse_line" /\ last.line = UnequalDmg
    /\ tracker.weapon_buff_damage_total = 9
    /\ tracker.weapon_buff_damage_by_type = ("Fire" :> 9)
    /\ tracker.damage_dealt = 9
    /\ tracker.damage_dealt_crits = <<9>>

----------------------------------------------------------------------------
(* Opponent binding (_set_target, _update_encounter_time; lines 269-279) *)

(* C32: in every state reachable by sequential parse_line and reset() calls, *)
(* for every actor name a line can carry (a name made only of trailing       *)
(* punctuation included), these hold together or not at all: target_name is  *)
(* non-empty, target_saves and target_ac are allocated, and encounter_start  *)
(* is set.                                                                   *)
C32_BindingAllOrNothing ==
    LET bound == tracker.target_name # <<>>
    IN  /\ bound <=> tracker.target_saves # None
        /\ bound <=> tracker.target_ac # None
        /\ bound <=> tracker.encounter_start # None

----------------------------------------------------------------------------
(* The kill marker (parse_line lines 464-470, reset lines 498-499) *)

(* the session with the kill marker cleared *)
Unmarked(t) == [t EXCEPT !.target_dead = FALSE, !.kill_time = None]

(* a parse_line call made while the opponent is marked dead *)
ParsedAfterKill == tracker.target_dead /\ nlines' = nlines + 1

(* C33: in every state reachable by sequential parse_line and reset() calls  *)
(* target_dead is true iff kill_time is set; once target_dead is true it     *)
(* stays true through every further parse_line call until reset(); and lines *)
(* attributed to the opponent after the kill are still aggregated into the   *)
(* counters and ledgers (a hit is counted, damage dealt and taken is added,  *)
(* a potion or heal is counted, a save is recorded), exactly as they would   *)
(* be without the marker.                                                    *)
C33_DeadUntilReset ==
    /\ [](tracker.target_dead <=> tracker.kill_time # None)
    /\ [][ParsedAfterKill =>
            /\ tracker'.target_dead
            /\ Unmarked(tracker') = Unmarked(parse_line(Unmarked(tracker), last'.line, now))
            /\ matches_target(tracker, Ko) =>
                 /\ last'.line = Rolled(Az, Ko, "hit", 10, 5, 15)
                      => tracker'.hits = tracker.hits + 1
                 /\ last'.line = ConcealMissLine(Az, Ko, 50)
                      => tracker'.conceals = tracker.conceals + 1
                 /\ last'.line = DmgLine(Az, Ko, 9, None)
                      => tracker'.damage_dealt = tracker.damage_dealt + 9
                 /\ last'.line = DmgLine(Ko, Az, 7, None)
                      => tracker'.damage_taken = Append(tracker.damage_taken, 7)
                 /\ last'.line \in {PotionLine(Ko), HealLine(Ko)}
                      => tracker'.target_pots = tracker.target_pots + 1
                 /\ last'.line = SaveLine(Ko, "Will", 4)
                      => /\ tracker'.target_saves # None
                         /\ Val(tracker'.target_saves).will # None]_vars

(* hit, kill, hit: the second hit is counted after the kill was recorded *)
C33_Witness ==
    /\ tracker.target_dead
    /\ tracker.kill_time # None
    /\ tracker.target_name = Ko
    /\ last.op = "parse_line" /\ last.line = Rolled(Az, Ko, "hit", 10, 5, 15)
    /\ tracker.hits = 2
    /\ nlines = 3

----------------------------------------------------------------------------
(* reset() and the rolling attack bonus (reset lines 472-499, AttackBonus    *)
(* lines 124-149, _new_target lines 916-923)                                 *)

CarryLines ==
    { Rolled(Az, Ko, "hit", 10, 5, 15),
      Rolled(Az, Ko, "hit", 10, 8, 18),
      Rolled(Az, Gob, "hit", 10, 3, 13) }

InitCarry == InitWith({CfgLock})

NextCarry ==
    \/ \E l \in CarryLines : ParseLine(l)
    \/ Reset
    \/ NewTarget
    \/ TickLong

SpecCarry == InitCarry /\ [][NextCarry]_vars

(* the bonuses of the observations of ab still inside the window at clk *)
InWindow(ab, clk) == Bonuses(SelectPairs(ab.recent_attacks, clk - window_seconds))

(* C34: reset() leaves the rolling attack-bonus state unchanged (current,    *)
(* max_observed and the recorded observations are the same after reset() as  *)
(* before), so bonuses observed against the previous opponent still          *)
(* determine the displayed current and maximum in the next session until     *)
(* they age out or are overwritten: _new_target, which renders after         *)
(* reset(), keeps current and drops only the observations older than the     *)
(* window, and the first attack of the next session shows a maximum that is  *)
(* at least every earlier bonus still inside the window.                     *)
C34_ResetKeepsAttackBonus ==
    [][/\ (last'.op = "reset" /\ now' = now) =>
            tracker'.attack_bonus = tracker.attack_bonus
       /\ (last'.op = "new_target" /\ now' = now) =>
            LET ab == tracker.attack_bonus
                ab2 == tracker'.attack_bonus
            IN  /\ ab2.current = ab.current
                /\ Bonuses(ab2.recent_attacks) = InWindow(ab, now)
                /\ ab2.max_observed =
                       IF InWindow(ab, now) # <<>>
                       THEN SeqMax(InWindow(ab, now)) ELSE ab.max_observed
       /\ (last.op \in {"reset", "new_target"} /\ nlines' = nlines + 1) =>
            LET ab == tracker.attack_bonus
                ab2 == tracker'.attack_bonus
                b == Val(Val(last'.line.atk).bonus)
            IN  /\ ab2.current = b
                /\ ab2.max_observed = SeqMax(InWindow(ab, now) \o <<b>>)]_vars

(* bonuses 8 then 5 against the first opponent, then reset(): the session is *)
(* empty while current is still 5 and the maximum still 8                    *)
C34_Witness ==
    /\ last.op = "reset"
    /\ tracker.target_name = <<>>
    /\ tracker.hits = 0
    /\ tracker.attack_bonus.current = 5
    /\ tracker.attack_bonus.max_observed = 8
    /\ Len(tracker.attack_bonus.recent_attacks) = 2

----------------------------------------------------------------------------
(* SpecStop: one Start, then Stop, with the tail thread and the display      *)
(* timer (_start_tracking lines 859-904, _stop_tracking lines 906-909,       *)
(* _tail_log lines 925-945, _update_display lines 947-963).  The timer's pc  *)
(* is "armed" while a callback is scheduled with root.after.                 *)

ArmedTimer == [pc |-> "armed", filtered |-> <<>>]

(* _start_tracking pressed for the first time, with its closing call of      *)
(* _update_display: a first render of the fresh tracker, and the callback    *)
(* scheduled                                                                 *)
StartTrackingOnce ==
    /\ ~gui.running
    /\ \A k \in 1..MaxThreads : loops[k].pc = "none"
    /\ timer.pc = "idle"
    /\ loops' = [loops EXCEPT ![1] = [NoLoop EXCEPT !.pc = "top"]]
    /\ tracker' = NewTracker(CfgLock, now)
    /\ gui' = [running |-> TRUE, file_position |-> Len(logfile.content)]
    /\ display' = None
    /\ timer' = ArmedTimer
    /\ last' = [op |-> "start", line |-> NoLine]
    /\ prev' = NoPrev
    /\ UNCHANGED <<now, nlines, calls, tail, logfile, fed>>

(* the scheduled _update_display runs: while running it renders, hands a     *)
(* locked opponent over to the filter and schedules itself again; when not   *)
(* running it does nothing and schedules nothing                             *)
DisplayTick ==
    /\ timer.pc = "armed"
    /\ IF gui.running
       THEN /\ tracker' = [tracker EXCEPT
                              !.attack_bonus = ab_refresh(@, now),
                              !.auto_track = IF HandoffDue THEN FALSE ELSE @,
                              !.exact_match = IF HandoffDue THEN TRUE ELSE @,
                              !.target_filter =
                                  IF HandoffDue THEN Lower(tracker.target_name) ELSE @]
            /\ display' = IF tracker.target_name # <<>> /\ tracker.target_ac # None
                          THEN Some(get_ac_estimate(Val(tracker.target_ac)))
                          ELSE None
            /\ last' = [op |-> "render", line |-> NoLine]
            /\ UNCHANGED timer
       ELSE /\ timer' = IdleTimer
            /\ UNCHANGED <<tracker, display, last>>
    /\ UNCHANGED <<now, nlines, prev, calls, tail, gui, logfile, loops, fed>>

NextStop ==
    \/ StartTrackingOnce
    \/ StopTracking
    \/ AppendLine
    \/ TailLoop
    \/ DisplayTick

(* the tail thread and the Tk main loop keep being scheduled *)
SpecStop ==
    InitTail /\ [][NextStop]_vars /\ WF_vars(TailLoop) /\ WF_vars(DisplayTick)

(* _stop_tracking has run (tracking was started and is not running) *)
Stopped == ~gui.running /\ loops[1].pc # "none"

(* no thread is inside the loop of _tail_log *)
TailExited == \A k \in 1..MaxThreads : loops[k].pc \in {"none", "done"}

(* C35: after _stop_tracking(), tracking not being started again, the tail   *)
(* loop eventually exits, at its next poll (the next test of self.running    *)
(* leaves the loop), and parse_line is never called after the exit; the      *)
(* periodic display refresh likewise stops rescheduling itself (eventually   *)
(* no callback is scheduled, and none is scheduled again).                   *)
C35_StopEndsLoops ==
    /\ Stopped ~> TailExited
    /\ [][Stopped =>
            \A k \in 1..MaxThreads :
               (loops[k].pc = "top" /\ loops'[k] # loops[k]) => loops'[k].pc = "done"]_vars
    /\ [][(Stopped /\ TailExited) =>
            (TailExited' /\ nlines' = nlines /\ fed' = fed /\ tracker' = tracker)]_vars
    /\ Stopped ~> (timer.pc = "idle")
    /\ [][(Stopped /\ timer.pc = "idle") => (timer' = timer /\ display' = display)]_vars

(* two lines were parsed, tracking was stopped, a third line was written     *)
(* after the loop had exited and stays unparsed, and no callback is left     *)
C35_Witness ==
    /\ Stopped
    /\ loops[1].pc = "done"
    /\ timer.pc = "idle"
    /\ nlines = 2
    /\ logfile.written = 3
    /\ Len(logfile.content) = 3
    /\ gui.file_position = 2

====
